---- MODULE Spec2Model ----
(***************************************************************************)
(* format_xml: the escaping writers of escape.rs and the xfmt! /           *)
(* format_xml! template macros, as state machines over an output sink.     *)
(*                                                                         *)
(* A string is a sequence of bytes; a byte is written as a one-character   *)
(* string ("<", "a", ...).  A sink is a core::fmt::Write implementor: it   *)
(* accepts write_str calls until it starts to refuse them.                 *)
(***************************************************************************)
EXTENDS Integers, Sequences, FiniteSets, TLC

VARIABLES
    wrap,     \* which escaping wrapper is put around the sink
    calls,    \* the strings passed to the wrapper's write_str, in order
    sink,     \* the wrapped sink (the `inner` field of the wrapper)
    res,      \* result of the last call: "none", "Ok" or "Err"
    tmpl,     \* the template handed to xfmt! / format_xml! (a sequence of nodes)
    env       \* the values of the variables the template's expressions name

vars == <<wrap, calls, sink, res, tmpl, env>>

----------------------------------------------------------------------------
(* Bounds of the model *)

\* longest total input written through the Text / AttributeValue escapers
MaxLen == 3
\* longest total input written through the Comment / CData escapers
MaxNeedleLen == 5
\* number of write_str calls made on one wrapper
MaxCalls == 2
\* a faulty sink accepts 0..MaxQuota writes before it refuses
MaxQuota == 2

----------------------------------------------------------------------------
(* Bytes and strings *)

QUOT == "\""
APOS == "'"

TextBytes    == {"<", "&", ">", APOS, QUOT, "a"}
CommentBytes == {"-", "a", ">"}
CDataBytes   == {"]", ">", "a"}

StrUpTo(A, n) == UNION {[1..m -> A] : m \in 0..n}

RECURSIVE Flatten(_)
Flatten(ss) == IF ss = <<>> THEN <<>> ELSE Head(ss) \o Flatten(Tail(ss))

RECURSIVE SumLen(_)
SumLen(ss) == IF ss = <<>> THEN 0 ELSE Len(Head(ss)) + SumLen(Tail(ss))

Drop(s, n) == SubSeq(s, n + 1, Len(s))
Take(s, n) == SubSeq(s, 1, n)

StartsWith(s, p) == Len(s) >= Len(p) /\ Take(s, Len(p)) = p

Contains(s, p) == \E i \in 0..(Len(s) - Len(p)) : SubSeq(s, i + 1, i + Len(p)) = p

----------------------------------------------------------------------------
(* The sink: a fmt::Write implementor.  A faulty sink accepts `left` more  *)
(* write_str calls and refuses every later one without storing anything.   *)

NewSink(faulty, left) ==
    [buf |-> <<>>, writes |-> <<>>, faulty |-> faulty, left |-> left, refused |-> 0]

Ok(k)  == [k |-> k, ok |-> TRUE]

SinkWrite(k, s) ==
    IF k.faulty /\ k.left = 0
    THEN [k |-> [k EXCEPT !.refused = @ + 1], ok |-> FALSE]
    ELSE [k |-> [k EXCEPT !.buf = @ \o s,
                          !.writes = Append(@, s),
                          !.left = IF k.faulty THEN @ - 1 ELSE @],
          ok |-> TRUE]

----------------------------------------------------------------------------
(* escape.rs: split_text, split_attr, escape_chr *)

RECURSIVE split_from(_, _, _)
split_from(bytes, stop, i) ==
    IF i < Len(bytes)
    THEN IF bytes[i + 1] \in stop THEN i ELSE split_from(bytes, stop, i + 1)
    ELSE i

split_text_cont(bytes) == split_from(bytes, {"<", "&", ">", "A9"}, 0)
split_text_noGt(bytes) == split_from(bytes, {"<", "&"}, 0)
split_text_apos(bytes) == split_from(bytes, {"<", "&", ">", APOS}, 0)
split_text(bytes) == split_from(bytes, {"<", "&", ">"}, 0)

split_attr_noApos(bytes) == split_from(bytes, {"<", "&", ">", QUOT}, 0)
split_attr(bytes) == split_from(bytes, {"<", "&", ">", APOS, QUOT}, 0)

escape_chr(k, chr) ==
    CASE chr = "<"  -> SinkWrite(k, <<"&", "l", "t", ";">>)
      [] chr = "&"  -> SinkWrite(k, <<"&", "a", "m", "p", ";">>)
      [] chr = ">"  -> SinkWrite(k, <<"&", "g", "t", ";">>)
      [] chr = APOS -> SinkWrite(k, <<"&", "a", "p", "o", "s", ";">>)
      [] chr = QUOT -> SinkWrite(k, <<"&", "q", "u", "o", "t", ";">>)
      [] OTHER      -> Ok(k)

(* EscapeText::write_str: the while loop over the remaining bytes *)
RECURSIVE EscapeText_loop(_, _)
EscapeText_loop(k, bytes) ==
    IF Len(bytes) > 0
    THEN LET i      == split_text(bytes)
             prefix == Take(bytes, i)
             r1     == IF Len(prefix) > 0 THEN SinkWrite(k, prefix) ELSE Ok(k)
         IN  IF ~r1.ok THEN r1
             ELSE IF i < Len(bytes)
                  THEN LET r2 == escape_chr(r1.k, bytes[i + 1])
                       IN  IF ~r2.ok THEN r2
                           ELSE EscapeText_loop(r2.k, Drop(bytes, i + 1))
                  ELSE Ok(r1.k)
    ELSE Ok(k)

EscapeText_write_str_firstOnly(k, s) ==
    LET i == split_text(s)
    IN  IF i < Len(s)
        THEN Ok(SinkWrite(escape_chr(SinkWrite(k, Take(s, i)).k, s[i + 1]).k, Drop(s, i + 1)).k)
        ELSE SinkWrite(k, s)

EscapeText_write_str(k, s) == EscapeText_loop(k, s)

(* EscapeAttrValue::write_str *)
RECURSIVE EscapeAttrValue_loop(_, _)
EscapeAttrValue_loop(k, bytes) ==
    IF Len(bytes) > 0
    THEN LET i      == split_attr(bytes)
             prefix == Take(bytes, i)
             r1     == IF Len(prefix) > 0 THEN SinkWrite(k, prefix) ELSE Ok(k)
         IN  IF ~r1.ok THEN r1
             ELSE IF i < Len(bytes)
                  THEN LET r2 == escape_chr(r1.k, bytes[i + 1])
                       IN  IF ~r2.ok THEN r2
                           ELSE EscapeAttrValue_loop(r2.k, Drop(bytes, i + 1))
                  ELSE Ok(r1.k)
    ELSE Ok(k)

EscapeAttrValue_write_str(k, s) == EscapeAttrValue_loop(k, s)

----------------------------------------------------------------------------
(* str::split(needle): the pieces between the non-overlapping matches of   *)
(* the needle, found left to right; always at least one piece.             *)

RECURSIVE find_from(_, _, _)
find_from(s, needle, i) ==
    IF i + Len(needle) > Len(s) THEN -1
    ELSE IF SubSeq(s, i + 1, i + Len(needle)) = needle THEN i
         ELSE find_from(s, needle, i + 1)

RECURSIVE str_split(_, _)
str_split(s, needle) ==
    LET i == find_from(s, needle, 0)
    IN  IF i < 0 THEN <<s>>
        ELSE <<Take(s, i)>> \o str_split(Drop(s, i + Len(needle)), needle)

CommentNeedle == <<"-", "-">>
CDataNeedle   == <<"]", "]", ">">>
CDataSep      == <<"]", "]", "]", "]", ">", "<", "!", "[", "C", "D", "A", "T", "A", "[", ">">>

(* EscapeComment::write_str: every piece is written, nothing in between *)
RECURSIVE EscapeComment_pieces(_, _)
EscapeComment_pieces(k, pieces) ==
    IF pieces = <<>> THEN Ok(k)
    ELSE LET r == SinkWrite(k, Head(pieces))
         IN  IF ~r.ok THEN r ELSE EscapeComment_pieces(r.k, Tail(pieces))

EscapeComment_keep(k, s) == SinkWrite(k, s)
EscapeComment_write_str(k, s) == EscapeComment_pieces(k, str_split(s, CommentNeedle))

(* EscapeCharData::write_str: the separator before every piece but the first *)
RECURSIVE EscapeCharData_pieces(_, _, _)
EscapeCharData_pieces(k, pieces, write_sep) ==
    IF pieces = <<>> THEN Ok(k)
    ELSE LET r1 == IF write_sep THEN SinkWrite(k, CDataSep) ELSE Ok(k)
         IN  IF ~r1.ok THEN r1
             ELSE LET r2 == SinkWrite(r1.k, Head(pieces))
                  IN  IF ~r2.ok THEN r2
                      ELSE EscapeCharData_pieces(r2.k, Tail(pieces), TRUE)

EscapeCharData_keep(k, s) == SinkWrite(k, s)
EscapeCharData_write_str(k, s) == EscapeCharData_pieces(k, str_split(s, CDataNeedle), FALSE)

----------------------------------------------------------------------------
(* The wrappers as a state machine: a wrapper is put around a fresh sink   *)
(* and its write_str is called up to MaxCalls times.                       *)

Wrappers == {"Text", "AttributeValue", "Comment", "CData"}

Init ==
    /\ wrap \in Wrappers
    /\ calls = <<>>
    /\ \E faulty \in BOOLEAN :
         \E left \in (IF faulty THEN 0..MaxQuota ELSE {0}) :
            sink = NewSink(faulty, left)
    /\ res = "none"
    /\ tmpl = <<>>
    /\ env = <<>>

Call(r, s) ==
    /\ sink' = r.k
    /\ calls' = Append(calls, s)
    /\ res' = IF r.ok THEN "Ok" ELSE "Err"
    /\ UNCHANGED <<wrap, tmpl, env>>

WriteText ==
    /\ wrap = "Text"
    /\ Len(calls) < MaxCalls
    /\ \E s \in StrUpTo(TextBytes, MaxLen - SumLen(calls)) :
         Call(EscapeText_write_str(sink, s), s)

WriteAttrValue ==
    /\ wrap = "AttributeValue"
    /\ Len(calls) < MaxCalls
    /\ \E s \in StrUpTo(TextBytes, MaxLen - SumLen(calls)) :
         Call(EscapeAttrValue_write_str(sink, s), s)

WriteComment ==
    /\ wrap = "Comment"
    /\ Len(calls) < MaxCalls
    /\ \E s \in StrUpTo(CommentBytes, MaxNeedleLen - SumLen(calls)) :
         Call(EscapeComment_write_str(sink, s), s)

WriteCharData ==
    /\ wrap = "CData"
    /\ Len(calls) < MaxCalls
    /\ \E s \in StrUpTo(CDataBytes, MaxNeedleLen - SumLen(calls)) :
         Call(EscapeCharData_write_str(sink, s), s)

Next == WriteText \/ WriteAttrValue \/ WriteComment \/ WriteCharData

Spec == Init /\ [][Next]_vars

----------------------------------------------------------------------------
(* What the escaping contexts are specified to do, byte by byte.           *)

TextRule ==
    [c \in {"<", "&", ">"} |->
        CASE c = "<" -> <<"&", "l", "t", ";">>
          [] c = "&" -> <<"&", "a", "m", "p", ";">>
          [] c = ">" -> <<"&", "g", "t", ";">>]

AttrRule ==
    [c \in {"<", "&", ">", APOS, QUOT} |->
        CASE c = APOS -> <<"&", "a", "p", "o", "s", ";">>
          [] c = QUOT -> <<"&", "q", "u", "o", "t", ";">>
          [] OTHER    -> TextRule[c]]

RECURSIVE ReplaceEach(_, _)
ReplaceEach(s, rule) ==
    IF s = <<>> THEN <<>>
    ELSE (IF Head(s) \in DOMAIN rule THEN rule[Head(s)] ELSE <<Head(s)>>)
         \o ReplaceEach(Tail(s), rule)

RECURSIVE ReplaceAll(_, _, _)
ReplaceAll(s, needle, by) ==
    IF s = <<>> THEN <<>>
    ELSE IF StartsWith(s, needle)
         THEN by \o ReplaceAll(Drop(s, Len(needle)), needle, by)
         ELSE <<Head(s)>> \o ReplaceAll(Tail(s), needle, by)

Escaped(ctx, s) ==
    CASE ctx = "Text"           -> ReplaceEach(s, TextRule)
      [] ctx = "AttributeValue" -> ReplaceEach(s, AttrRule)
      [] ctx = "Comment"        -> ReplaceAll(s, <<"-", "-">>, <<>>)
      [] ctx = "CData"          -> ReplaceAll(s, <<"]", "]", ">">>,
                                       <<"]", "]", "]", "]", ">", "<", "!", "[",
                                         "C", "D", "A", "T", "A", "[", ">">>)

NoReserved(ctx, s) ==
    CASE ctx = "Text"           -> \A i \in 1..Len(s) : s[i] \notin {"<", "&", ">"}
      [] ctx = "AttributeValue" -> \A i \in 1..Len(s) : s[i] \notin {"<", "&", ">", APOS, QUOT}
      [] ctx = "Comment"        -> ~Contains(s, <<"-", "-">>)
      [] ctx = "CData"          -> ~Contains(s, <<"]", "]", ">">>)

OneWrite(ctx) == wrap = ctx /\ Len(calls) = 1 /\ sink.refused = 0

\* C1: one write of s through EscapeText leaves in the sink s with `<`, `&`,
\* `>` replaced by `&lt;`, `&amp;`, `&gt;` and every other byte, `'` and `"`
\* included, copied unchanged in its position.
C1_TextEscape ==
    OneWrite("Text") => sink.buf = ReplaceEach(calls[1], TextRule)

C1_Witness ==
    /\ OneWrite("Text")
    /\ calls[1] = <<"<", APOS, ">">>
    /\ sink.buf = <<"&", "l", "t", ";", APOS, "&", "g", "t", ";">>

\* C2: one write of s through EscapeAttrValue leaves in the sink s with `<`,
\* `&`, `>`, `'`, `"` replaced by their entities and every other byte copied
\* unchanged.
C2_AttrValueEscape ==
    OneWrite("AttributeValue") => sink.buf = ReplaceEach(calls[1], AttrRule)

C2_Witness ==
    /\ OneWrite("AttributeValue")
    /\ calls[1] = <<APOS, "a", QUOT>>
    /\ sink.buf = <<"&", "a", "p", "o", "s", ";", "a", "&", "q", "u", "o", "t", ";">>

\* C6: one write of s through EscapeComment leaves in the sink s with every
\* `--` (left to right, non-overlapping) deleted and nothing put in its place.
C6_CommentDeletes ==
    OneWrite("Comment") => sink.buf = ReplaceAll(calls[1], <<"-", "-">>, <<>>)

C6_Witness ==
    /\ OneWrite("Comment")
    /\ calls[1] = <<"a", "-", "-", "-", ">">>
    /\ sink.buf = <<"a", "-", ">">>

\* C7: one write of s through EscapeCharData leaves in the sink s with every
\* `]]>` (left to right, non-overlapping) replaced by `]]]]><![CDATA[>`.
C7_CDataSplits ==
    OneWrite("CData") => sink.buf = Escaped("CData", calls[1])

C7_Witness ==
    /\ OneWrite("CData")
    /\ calls[1] = <<"a", "]", "]", ">", "a">>
    /\ sink.buf = <<"a">> \o CDataSep \o <<"a">>

\* C8: in each of the four contexts, an input with none of the context's
\* reserved characters or substrings is written to the sink unchanged.
C8_SafeInputUnchanged ==
    \A ctx \in Wrappers :
        (OneWrite(ctx) /\ NoReserved(ctx, calls[1])) => sink.buf = calls[1]

C8_Witness ==
    /\ OneWrite("CData")
    /\ calls[1] = <<"]", ">", "]", "]", "a">>
    /\ NoReserved("CData", calls[1])
    /\ sink.buf = calls[1]

(* A needle straddles the boundary of two writes when the first write ends *)
(* with its first j bytes, the second starts with the rest, and neither    *)
(* part belongs to an occurrence lying inside one of the writes.           *)
Occurs(s, needle) ==
    {i \in 0..(Len(s) - Len(needle)) : SubSeq(s, i + 1, i + Len(needle)) = needle}

Straddles(c1, c2, needle) ==
    \E j \in 1..(Len(needle) - 1) :
        /\ Len(c1) >= j
        /\ Len(c2) >= Len(needle) - j
        /\ Drop(c1, Len(c1) - j) \o Take(c2, Len(needle) - j) = needle
        /\ \A i \in Occurs(c1, needle) : i + Len(needle) <= Len(c1) - j
        /\ \A i \in Occurs(c2, needle) : i >= Len(needle) - j

NeedleOf(ctx) == IF ctx = "Comment" THEN <<"-", "-">> ELSE <<"]", "]", ">">>

RECURSIVE EscapedEach(_, _)
EscapedEach(ctx, ss) ==
    IF ss = <<>> THEN <<>> ELSE Escaped(ctx, Head(ss)) \o EscapedEach(ctx, Tail(ss))

C9_WitnessCData ==
    /\ wrap = "CData"
    /\ sink.refused = 0
    /\ calls = << <<"a", "]", "]">>, <<">", "a">> >>
    /\ sink.buf = <<"a", "]", "]", ">", "a">>

----------------------------------------------------------------------------
(* xfmt.rs: the input of the macros is a sequence of Rust token trees.     *)
(*   k = "lit"   a literal, s its text as concat! renders it               *)
(*   k = "id"    an identifier or keyword, s its spelling                  *)
(*   k = "p"     one punctuation character, s = <<c>>                      *)
(*   k = "grp"   a delimited group, s = <<"{">>, <<"(">> or <<"[">>,       *)
(*               ts the token trees inside                                 *)
(*   k = "@id"   the internal `@ident(expr)` marker, s the name it carries *)

Lit(s)     == [k |-> "lit", s |-> s, ts |-> <<>>]
Id(s)      == [k |-> "id", s |-> s, ts |-> <<>>]
P(c)       == [k |-> "p", s |-> <<c>>, ts |-> <<>>]
Grp(d, ts) == [k |-> "grp", s |-> <<d>>, ts |-> ts]
AtIdent(s) == [k |-> "@id", s |-> s, ts |-> <<>>]

IsLit(tt, i)    == Len(tt) >= i /\ tt[i].k = "lit"
IsId(tt, i)     == Len(tt) >= i /\ tt[i].k = "id"
IsP(tt, i, c)   == Len(tt) >= i /\ tt[i].k = "p" /\ tt[i].s = <<c>>
IsGrp(tt, i, d) == Len(tt) >= i /\ tt[i].k = "grp" /\ tt[i].s = <<d>>
IsAt(tt, i)     == Len(tt) >= i /\ tt[i].k = "@id"

(* The statements an expansion consists of.                                *)
WriteStrStmt(s)     == [op |-> "write_str", s |-> s]
FmtStmt(esc, e, sp) == [op |-> "fmt", esc |-> esc, e |-> e, spec |-> sp]
CompileError        == [op |-> "compile_error"]
(* `if .. { } else if .. { } else { }`: the arms in source order, each    *)
(* with its keyword, its guard and the expansion of its body               *)
IfStmt(arms, hasElse, els) == [op |-> "if", arms |-> arms, hasElse |-> hasElse, els |-> els]
(* `for $p in $e { }` with the expansion of its body                       *)
ForStmt(p, e, body) == [op |-> "for", p |-> p, e |-> e, body |-> body]

(* `{ let _f = Escape..::wrap($f); __fmt!{_f tokens} }` with the body     *)
(* tokens as collected and the statements they expand to                   *)
BodyStmt(esc, tts, prog) == [op |-> "body", esc |-> esc, tts |-> tts, prog |-> prog]

(* `match $e { $pat => { } .. }`: the arms in source order, each with its  *)
(* pattern and the expansion of its body                                   *)
MatchStmt(e, arms) == [op |-> "match", e |-> e, arms |-> arms]

Kw(w) == [k |-> "id", s |-> w, ts |-> <<>>]
KwIf   == <<"i", "f">>
KwElse == <<"e", "l", "s", "e">>
KwFor  == <<"f", "o", "r">>
KwIn   == <<"i", "n">>
KwLet  == <<"l", "e", "t">>
KwMatch == <<"m", "a", "t", "c", "h">>
Keywords == {KwIf, KwElse, KwFor, KwIn, KwLet, KwMatch}
(* the patterns of the model: `true`, `false` and `_` *)
Patterns == {<<"t", "r", "u", "e">>, <<"f", "a", "l", "s", "e">>, <<"_">>}
IsPat(tt, i) == Len(tt) >= i /\ tt[i].k = "id" /\ tt[i].s \in Patterns
IsKw(tt, i, w) == Len(tt) >= i /\ tt[i].k = "id" /\ tt[i].s = w

(* __write_str!: nothing for an empty list, else one write_str of the      *)
(* concatenation of the list.                                              *)
write_str_perText(texts) ==
    [i \in 1..Len(texts) |-> WriteStrStmt(texts[i])]

write_str(texts) ==
    IF texts = <<>> THEN <<>> ELSE <<WriteStrStmt(Flatten(texts))>>

(* A token of a format spec that is a number, with the letters lexed into  *)
(* it (`4`, `06x`).                                                        *)
Num(s) == [k |-> "num", s |-> s, ts |-> <<>>]

(* concat!("{", stringify!(..) for each token, "}"): the text of the tokens *)
stringify(tt) == Flatten([i \in 1..Len(tt) |-> tt[i].s])

(* An expression of the model is one variable of the environment.          *)
IsExpr(e, vs) == Len(e) = 1 /\ e[1].k = "id" /\ e[1].s \in vs

(* `v` is a &str, `n` a u32 *)
Vars    == {<<"v">>}
IntVars == {<<"n">>}

(* the guards of the `if` chains, the iterable and the binding of a `for` *)
MaxArms  == 2
CondVars == {<<"c", d>> : d \in {"1", "2", "3", "4"}}
IterVars == {<<"x", "s">>}
LoopVars == {<<"i">>}
Idents   == Vars \cup IntVars \cup CondVars \cup IterVars \cup LoopVars

----------------------------------------------------------------------------
(* format_args!("{<spec>}", e): what is between the braces is empty or     *)
(* `:` [[fill]align]['#']['0'][width]['.' precision][type].  Signs, `$`    *)
(* arguments, `.*`, the float types, and `#` or `0` on a &str are not       *)
(* modelled and count as errors.                                           *)

DecDigits == <<"0", "1", "2", "3", "4", "5", "6", "7", "8", "9">>
HexDigits == DecDigits \o <<"a", "b", "c", "d", "e", "f">>
Aligns    == {"<", "^", ">"}
IntTypes  == {<<>>, <<"?">>, <<"x">>, <<"X">>, <<"o">>, <<"b">>, <<"x", "?">>, <<"X", "?">>}
StrTypes  == {<<>>, <<"?">>}

IsDigit(c)  == \E d \in 1..10 : DecDigits[d] = c
DigitVal(c) == (CHOOSE d \in 1..10 : DecDigits[d] = c) - 1

(* the digits a string starts with *)
RECURSIVE LeadingDigits(_)
LeadingDigits(s) ==
    IF s # <<>> /\ IsDigit(Head(s)) THEN <<Head(s)>> \o LeadingDigits(Tail(s)) ELSE <<>>

RECURSIVE ParseNat(_, _)
ParseNat(acc, s) == IF s = <<>> THEN acc ELSE ParseNat(acc * 10 + DigitVal(Head(s)), Tail(s))

(* ps = [ok, fill, align ("" when none), alt, zero, width, prec (-1 when   *)
(*       none), ty]; "{}" is the default spec                              *)
DefaultSpec ==
    [ok |-> TRUE, fill |-> " ", align |-> "", alt |-> FALSE, zero |-> FALSE,
     width |-> 0, prec |-> -1, ty |-> <<>>]

(* the parts of a spec, last to first; each takes its part from the head  *)
(* of `s` and hands the rest on                                            *)
parse_type(ps, s) == [ps EXCEPT !.ok = ps.ok /\ s \in IntTypes, !.ty = s]

HasPrecision(s) == s # <<>> /\ Head(s) = "."
PrecisionDigits(s) == IF HasPrecision(s) THEN LeadingDigits(Tail(s)) ELSE <<>>

parse_precision(ps, s) ==
    parse_type([ps EXCEPT !.ok = HasPrecision(s) => PrecisionDigits(s) # <<>>,
                          !.prec = IF PrecisionDigits(s) # <<>>
                                   THEN ParseNat(0, PrecisionDigits(s)) ELSE -1],
               IF HasPrecision(s) THEN Drop(s, 1 + Len(PrecisionDigits(s))) ELSE s)

parse_width(ps, s) ==
    parse_precision([ps EXCEPT !.width = ParseNat(0, LeadingDigits(s))],
                    Drop(s, Len(LeadingDigits(s))))

HasFlag(s, c) == s # <<>> /\ Head(s) = c

parse_zero(ps, s) ==
    parse_width([ps EXCEPT !.zero = HasFlag(s, "0")], IF HasFlag(s, "0") THEN Tail(s) ELSE s)

parse_alternate(ps, s) ==
    parse_zero([ps EXCEPT !.alt = HasFlag(s, "#")], IF HasFlag(s, "#") THEN Tail(s) ELSE s)

(* the number of characters of [[fill]align] *)
AlignLen(s) ==
    IF Len(s) >= 2 /\ s[2] \in Aligns THEN 2
    ELSE IF Len(s) >= 1 /\ s[1] \in Aligns THEN 1 ELSE 0

parse_align(ps, s) ==
    parse_alternate([ps EXCEPT !.fill  = IF AlignLen(s) = 2 THEN s[1] ELSE " ",
                               !.align = IF AlignLen(s) = 0 THEN "" ELSE s[AlignLen(s)]],
                    Drop(s, AlignLen(s)))

parse_spec(s) ==
    IF s = <<>> THEN DefaultSpec
    ELSE parse_align([DefaultSpec EXCEPT !.ok = Head(s) = ":"], Tail(s))

(* the spec is well formed and the type of `e` implements its trait *)
TypeOk(e, ps) ==
    /\ ps.ok
    /\ IF e \in IntVars THEN ps.ty \in IntTypes
       ELSE ps.ty \in StrTypes /\ ~ps.alt /\ ~ps.zero

SpecOk(e, s) == TypeOk(e, parse_spec(s))

RECURSIVE to_radix(_, _, _)
to_radix(n, base, digits) ==
    IF n < base THEN <<digits[n + 1]>>
    ELSE to_radix(n \div base, base, digits) \o <<digits[(n % base) + 1]>>

UpperHex(c) ==
    CASE c = "a" -> "A" [] c = "b" -> "B" [] c = "c" -> "C"
      [] c = "d" -> "D" [] c = "e" -> "E" [] c = "f" -> "F" [] OTHER -> c

Repeat(c, n) == [i \in 1..n |-> c]

(* Formatter::padding: `body` and n fill characters, placed by `al` *)
padding(body, fill, n, al) ==
    IF n <= 0 THEN body
    ELSE CASE al = "<" -> body \o Repeat(fill, n)
           [] al = ">" -> Repeat(fill, n) \o body
           [] OTHER    -> Repeat(fill, n \div 2) \o body \o Repeat(fill, n - (n \div 2))

(* `body` in a field of ps.width; `default` is the alignment of the type *)
pad(body, ps, default) ==
    padding(body, ps.fill, ps.width - Len(body), IF ps.align = "" THEN default ELSE ps.align)

UpperHexDigits == [i \in 1..16 |-> UpperHex(HexDigits[i])]

(* the digits of a u32 in the base of the type *)
int_digits(n, ty) ==
    to_radix(n,
             CASE ty \in {<<"x">>, <<"x", "?">>, <<"X">>, <<"X", "?">>} -> 16
               [] ty = <<"o">> -> 8
               [] ty = <<"b">> -> 2
               [] OTHER -> 10,
             IF ty \in {<<"X">>, <<"X", "?">>} THEN UpperHexDigits ELSE HexDigits)

(* the prefix of the alternate form `#` *)
int_prefix(ps) ==
    IF ~ps.alt THEN <<>>
    ELSE CASE ps.ty \in {<<"x">>, <<"x", "?">>, <<"X">>, <<"X", "?">>} -> <<"0", "x">>
           [] ps.ty = <<"o">> -> <<"0", "o">>
           [] ps.ty = <<"b">> -> <<"0", "b">>
           [] OTHER -> <<>>

(* Formatter::pad_integral: with `0` the zeros go between prefix and       *)
(* digits, whatever the alignment; else the whole is padded, to the right  *)
pad_integral(prefix, digits, ps) ==
    IF ps.zero
    THEN prefix \o Repeat("0", ps.width - Len(prefix) - Len(digits)) \o digits
    ELSE pad(prefix \o digits, ps, ">")

(* Display, Debug, LowerHex, UpperHex, Octal and Binary of a u32; the      *)
(* precision is ignored                                                    *)
fmt_int(n, ps) == pad_integral(int_prefix(ps), int_digits(n, ps.ty), ps)

(* Debug of a &str: quoted, `"` and `\` escaped; the width is ignored *)
str_debug(v) ==
    <<QUOT>>
    \o Flatten([i \in 1..Len(v) |->
                  IF v[i] \in {QUOT, "\\"} THEN <<"\\", v[i]>> ELSE <<v[i]>>])
    \o <<QUOT>>

(* Display of a &str is the string itself *)
Display(v) == v

(* Display of a &str through Formatter::pad: cut to the precision, then    *)
(* padded to the width                                                     *)
fmt_str(v, ps) ==
    IF ps.ty = <<"?">> THEN str_debug(v)
    ELSE pad(IF ps.prec >= 0 /\ ps.prec < Len(v) THEN Take(Display(v), ps.prec) ELSE Display(v),
             ps, "<")

format_value(e, v, ps) == IF e \in IntVars THEN fmt_int(v, ps) ELSE fmt_str(v, ps)

(* the text format_args!("{<spec>}", e) writes for the value of `e` *)
Format(e, v, s) == format_value(e, v, parse_spec(s))

----------------------------------------------------------------------------
(* __xfmt_format!: the expression is the tokens before the first `:` or    *)
(* `;`; both hand `:` and the tokens after it to __xfmt_format_expr!       *)
(* f = [e: the tokens of the expression, s: the tokens of the spec]        *)
RECURSIVE xfmt_format_semi(_, _)
xfmt_format_semi(e, tt) ==
    IF tt = <<>> THEN [e |-> e, s |-> <<>>]
    ELSE IF IsP(tt, 1, ":")
    THEN [e |-> e, s |-> <<P(":")>> \o Tail(tt)]
    ELSE IF IsP(tt, 1, ";")
    THEN [e |-> e, s |-> <<P(";")>> \o Tail(tt)]
    ELSE xfmt_format_semi(Append(e, Head(tt)), Tail(tt))

RECURSIVE xfmt_format(_, _)
xfmt_format(e, tt) ==
    IF tt = <<>> THEN [e |-> e, s |-> <<>>]
    ELSE IF IsP(tt, 1, ":")
    THEN [e |-> e, s |-> <<P(":")>> \o Tail(tt)]
    ELSE IF IsP(tt, 1, ";")
    THEN [e |-> e, s |-> <<P(":")>> \o Tail(tt)]
    ELSE xfmt_format(Append(e, Head(tt)), Tail(tt))

(* __xfmt_format_expr!: `[$e:expr]` is format_args!("{}", $e); with a spec *)
(* the format string is "{" + the text of the spec's tokens + "}".  (The   *)
(* optional `, $w:expr` after the expression is not modelled.)             *)
xfmt_format_expr(esc, f) ==
    IF ~IsExpr(f.e, Idents) THEN <<CompileError>>
    ELSE IF f.s = <<>> THEN <<FmtStmt(esc, f.e[1].s, <<>>)>>
    ELSE IF SpecOk(f.e[1].s, stringify(f.s)) THEN <<FmtStmt(esc, f.e[1].s, stringify(f.s))>>
    ELSE <<CompileError>>

fmt_stmt_plain(esc, tt) == xfmt_format_expr(esc, xfmt_format(<<>>, tt))

fmt_stmt_attr_asText(esc, tt) == fmt_stmt_plain("Text", tt)
fmt_stmt_text_asRaw(esc, tt) == fmt_stmt_plain("Raw", tt)
fmt_stmt(esc, tt) == fmt_stmt_plain(esc, tt)

xfmt_format_text(tt) == fmt_stmt("Text", tt)
xfmt_format_attr(tt) == fmt_stmt("AttributeValue", tt)

RECURSIVE xfmt(_, _)
RECURSIVE xfmt_ident(_, _, _)
RECURSIVE xfmt_ident_cont(_, _, _, _)
RECURSIVE xfmt_ident_cont_colon(_, _, _, _)
RECURSIVE xfmt_attrs(_, _, _)
RECURSIVE xfmt_attrvalue(_, _, _)
RECURSIVE xfmt_close_tag(_, _)
RECURSIVE xfmt_close_decl(_, _)
RECURSIVE xfmt_if(_, _)
RECURSIVE xfmt_comment_asText(_, _)
RECURSIVE xfmt_comment(_, _)
RECURSIVE fmt_body(_, _, _)
RECURSIVE xfmt_match(_, _, _)
RECURSIVE until_comma(_, _)
RECURSIVE block(_, _)

(* __fmt!{_f tokens} on the wrapper _f: literals, adjacent ones as one,    *)
(* are written to _f, a braced group is formatted to _f; the body of a     *)
(* comment holds no other kind of node.                                    *)
fmt_body(esc, texts, tt) ==
    LET flush == IF texts = <<>> THEN <<>>
                 ELSE <<[op |-> "fmt_lit", esc |-> esc, s |-> Flatten(texts)]>>
    IN  IF IsLit(tt, 1)
        THEN fmt_body(esc, Append(texts, tt[1].s), Tail(tt))
        ELSE IF IsGrp(tt, 1, "{")
        THEN flush \o fmt_stmt(esc, tt[1].ts) \o fmt_body(esc, <<>>, Tail(tt))
        ELSE IF tt = <<>>
        THEN flush
        ELSE <<CompileError>>

(* __xfmt_comment!: acc is the body collected so far *)
xfmt_comment_asText(acc, tt) ==
    IF IsP(tt, 1, "-") /\ IsP(tt, 2, "->")
    THEN <<BodyStmt("Text", acc, fmt_body("Text", <<>>, acc))>>
         \o xfmt(<< <<" ", "-", "-", ">">> >>, Drop(tt, 2))
    ELSE IF tt # <<>>
    THEN xfmt_comment_asText(Append(acc, Head(tt)), Tail(tt))
    ELSE <<CompileError>>

xfmt_comment(acc, tt) ==
    IF IsP(tt, 1, "-") /\ IsP(tt, 2, "->")
    THEN <<BodyStmt("Comment", acc, fmt_body("Comment", <<>>, acc))>>
         \o xfmt(<< <<" ", "-", "-", ">">> >>, Drop(tt, 2))
    ELSE IF tt # <<>>
    THEN xfmt_comment(Append(acc, Head(tt)), Tail(tt))
    ELSE <<CompileError>>
RECURSIVE with_parens(_, _)

(* __with_parens!: the tokens up to the first `{}` block are put in        *)
(* parentheses; without a block an empty one is supplied and the           *)
(* expansion carries a compile_error!.                                     *)
with_parens(acc, tt) ==
    IF IsGrp(tt, 1, "{")
    THEN [tt |-> <<Grp("(", acc)>> \o tt, err |-> <<>>]
    ELSE IF tt # <<>>
    THEN with_parens(Append(acc, Head(tt)), Tail(tt))
    ELSE [tt |-> <<Grp("(", acc), Grp("{", <<>>)>>, err |-> <<CompileError>>]

(* `$crate::$next!{$($prefix)* @ident(name) $($tail)*}` *)
xfmt_next(next, prefix, tt) ==
    IF next = "__xfmt"
    THEN xfmt(prefix.texts, prefix.lead \o tt)
    ELSE xfmt_attrs(prefix.term, prefix.texts, tt)

(* `$crate::$term!{$f concat(texts) $($tail)*}` *)
xfmt_term(term, texts, tt) ==
    IF term = "__xfmt_close_tag"
    THEN xfmt_close_tag(texts, tt)
    ELSE xfmt_close_decl(texts, tt)

(* __xfmt_ident! *)
xfmt_ident(next, prefix, tt) ==
    IF IsLit(tt, 1)
    THEN xfmt_next(next, prefix, <<AtIdent(tt[1].s)>> \o Drop(tt, 1))
    ELSE IF IsId(tt, 1) /\ IsP(tt, 2, ":")
    THEN xfmt_ident_cont(next, prefix, <<tt[1].s, <<":">> >>, Drop(tt, 2))
    ELSE IF IsId(tt, 1) /\ IsP(tt, 2, "-")
    THEN xfmt_ident_cont(next, prefix, <<tt[1].s, <<"-">> >>, Drop(tt, 2))
    ELSE IF IsId(tt, 1) /\ IsP(tt, 2, ".")
    THEN xfmt_ident_cont(next, prefix, <<tt[1].s, <<".">> >>, Drop(tt, 2))
    ELSE IF IsId(tt, 1)
    THEN xfmt_next(next, prefix, <<AtIdent(tt[1].s)>> \o Drop(tt, 1))
    ELSE <<CompileError>>

(* __xfmt_ident_cont! *)
xfmt_ident_cont_colon(next, prefix, acc, tt) ==
    IF IsId(tt, 1) /\ IsP(tt, 2, ":")
    THEN xfmt_ident_cont_colon(next, prefix, acc \o <<tt[1].s, <<":">> >>, Drop(tt, 2))
    ELSE IF IsId(tt, 1) /\ IsP(tt, 2, "-")
    THEN xfmt_ident_cont_colon(next, prefix, acc \o <<tt[1].s, <<"-">> >>, Drop(tt, 2))
    ELSE IF IsId(tt, 1) /\ IsP(tt, 2, ".")
    THEN xfmt_ident_cont_colon(next, prefix, acc \o <<tt[1].s, <<".">> >>, Drop(tt, 2))
    ELSE IF IsId(tt, 1)
    THEN xfmt_next(next, prefix, <<AtIdent(Flatten(acc) \o tt[1].s)>> \o Drop(tt, 1))
    ELSE <<CompileError>>

xfmt_ident_cont(next, prefix, acc, tt) ==
    IF IsId(tt, 1) /\ IsP(tt, 2, "-")
    THEN xfmt_ident_cont(next, prefix, acc \o <<tt[1].s, <<"-">> >>, Drop(tt, 2))
    ELSE IF IsId(tt, 1) /\ IsP(tt, 2, ".")
    THEN xfmt_ident_cont(next, prefix, acc \o <<tt[1].s, <<".">> >>, Drop(tt, 2))
    ELSE IF IsId(tt, 1)
    THEN xfmt_next(next, prefix, <<AtIdent(Flatten(acc) \o tt[1].s)>> \o Drop(tt, 1))
    ELSE <<CompileError>>

(* __xfmt_attrs! *)
xfmt_attrs(term, texts, tt) ==
    IF IsAt(tt, 1) /\ IsP(tt, 2, "=")
    THEN xfmt_attrvalue(term, texts \o << <<" ">>, tt[1].s, <<"=">> >>, Drop(tt, 2))
    ELSE IF IsAt(tt, 1)
    THEN xfmt_attrs(term, texts \o << <<" ">>, tt[1].s >>, Drop(tt, 1))
    ELSE IF IsId(tt, 1)
    THEN xfmt_ident("__xfmt_attrs", [term |-> term, texts |-> texts], tt)
    ELSE IF IsLit(tt, 1) /\ IsP(tt, 2, "=")
    THEN xfmt_attrvalue(term, texts \o << <<" ">>, tt[1].s, <<"=">> >>, Drop(tt, 2))
    ELSE xfmt_term(term, texts, tt)

(* __xfmt_attrvalue! *)
xfmt_attrvalue_litEscaped(term, texts, tt) ==
    IF IsLit(tt, 1)
    THEN write_str(texts \o << <<QUOT>> >>)
         \o <<[op |-> "fmt_lit", esc |-> "AttributeValue", s |-> tt[1].s]>>
         \o xfmt_attrs(term, << <<QUOT>> >>, Drop(tt, 1))
    ELSE IF IsGrp(tt, 1, "{")
    THEN write_str(texts \o << <<QUOT>> >>)
         \o xfmt_format_attr(tt[1].ts)
         \o xfmt_attrs(term, << <<QUOT>> >>, Drop(tt, 1))
    ELSE <<CompileError>>

xfmt_attrvalue(term, texts, tt) ==
    IF IsLit(tt, 1)
    THEN xfmt_attrs(term, texts \o << <<QUOT>>, tt[1].s, <<QUOT>> >>, Drop(tt, 1))
    ELSE IF IsGrp(tt, 1, "{")
    THEN write_str(texts \o << <<QUOT>> >>)
         \o xfmt_format_attr(tt[1].ts)
         \o xfmt_attrs(term, << <<QUOT>> >>, Drop(tt, 1))
    ELSE <<CompileError>>

(* __xfmt_close_tag! *)
xfmt_close_tag_noSpace(texts, tt) ==
    IF IsP(tt, 1, ">")
    THEN xfmt(texts \o << <<">">> >>, Drop(tt, 1))
    ELSE IF IsP(tt, 1, "/") /\ IsP(tt, 2, ">")
    THEN xfmt(texts \o << <<"/", ">">> >>, Drop(tt, 2))
    ELSE IF tt = <<>>
    THEN xfmt(texts \o << <<">">> >>, <<>>) \o <<CompileError>>
    ELSE <<CompileError>>

xfmt_close_tag(texts, tt) ==
    IF IsP(tt, 1, ">")
    THEN xfmt(texts \o << <<">">> >>, Drop(tt, 1))
    ELSE IF IsP(tt, 1, "/") /\ IsP(tt, 2, ">")
    THEN xfmt(texts \o << <<" ", "/", ">">> >>, Drop(tt, 2))
    ELSE IF tt = <<>>
    THEN xfmt(texts \o << <<">">> >>, <<>>) \o <<CompileError>>
    ELSE <<CompileError>>

(* __xfmt_close_decl! *)
xfmt_close_decl_gt(texts, tt) ==
    IF IsP(tt, 1, "?") /\ IsP(tt, 2, ">")
    THEN xfmt(texts \o << <<"?", ">">> >>, Drop(tt, 2))
    ELSE IF IsP(tt, 1, ">")
    THEN xfmt(texts \o << <<"?", ">">> >>, Drop(tt, 1))
    ELSE IF tt = <<>>
    THEN xfmt(texts \o << <<"?", ">">> >>, <<>>) \o <<CompileError>>
    ELSE <<CompileError>>

xfmt_close_decl(texts, tt) ==
    IF IsP(tt, 1, "?") /\ IsP(tt, 2, ">")
    THEN xfmt(texts \o << <<"?", ">">> >>, Drop(tt, 2))
    ELSE IF tt = <<>>
    THEN xfmt(texts \o << <<"?", ">">> >>, <<>>) \o <<CompileError>>
    ELSE <<CompileError>>

(* __until_comma!: the tokens up to the first `,` are put in braces *)
until_comma(acc, tt) ==
    IF IsP(tt, 1, ",")
    THEN <<Grp("{", acc)>> \o tt
    ELSE IF tt # <<>>
    THEN until_comma(Append(acc, Head(tt)), Tail(tt))
    ELSE <<Grp("{", acc)>>

(* __xfmt_match!: arms is the list collected so far.  (Guards and          *)
(* patterns of more than one token are not modelled.)                      *)
xfmt_match(e, arms, tt) ==
    IF IsPat(tt, 1) /\ IsP(tt, 2, "=>") /\ IsGrp(tt, 3, "{") /\ IsP(tt, 4, ",")
    THEN xfmt_match(e, Append(arms, [pat |-> tt[1].s, body |-> xfmt(<<>>, tt[3].ts)]),
                    Drop(tt, 4))
    ELSE IF IsPat(tt, 1) /\ IsP(tt, 2, "=>") /\ IsGrp(tt, 3, "{")
    THEN xfmt_match(e, Append(arms, [pat |-> tt[1].s, body |-> xfmt(<<>>, tt[3].ts)]),
                    Drop(tt, 3))
    ELSE IF IsPat(tt, 1) /\ IsP(tt, 2, "=>")
    THEN xfmt_match(e, arms, Take(tt, 2) \o until_comma(<<>>, Drop(tt, 2)))
    ELSE IF tt = <<>>
    THEN <<MatchStmt(e, arms)>>
    ELSE <<CompileError>>

(* The block of an escape hatch `|f| { .. }`: Rust code run on the         *)
(* Formatter itself.  The blocks of the model are sequences of             *)
(* `f.write_str("..")?;`.                                                  *)
block(ff, tt) ==
    IF tt = <<>> THEN <<>>
    ELSE IF IsId(tt, 1) /\ tt[1].s = ff /\ IsP(tt, 2, ".")
            /\ IsKw(tt, 3, <<"w", "r", "i", "t", "e", "_", "s", "t", "r">>)
            /\ IsGrp(tt, 4, "(") /\ Len(tt[4].ts) = 1 /\ IsLit(tt[4].ts, 1)
            /\ IsP(tt, 5, "?") /\ IsP(tt, 6, ";")
    THEN <<WriteStrStmt(tt[4].ts[1].s)>> \o block(ff, Drop(tt, 6))
    ELSE <<CompileError>>

(* __xfmt_if!: c is the chain collected so far.  (The `if let` and       *)
(* `else if let` rules need `let` after `if`, which no template of the     *)
(* model has.)                                                             *)
xfmt_if(c, tt) ==
    \* if
    IF IsKw(tt, 1, KwIf) /\ IsGrp(tt, 2, "(") /\ IsGrp(tt, 3, "{")
    THEN IF IsExpr(tt[2].ts, Idents)
         THEN xfmt_if(Append(c, [kw |-> "if", c |-> tt[2].ts[1].s,
                                 body |-> xfmt(<<>>, tt[3].ts)]), Drop(tt, 3))
         ELSE <<CompileError>>
    ELSE IF IsKw(tt, 1, KwIf)
    THEN LET wp == with_parens(<<>>, Drop(tt, 1))
         IN  xfmt_if(c, <<Kw(KwIf)>> \o wp.tt) \o wp.err
    \* else if
    ELSE IF IsKw(tt, 1, KwElse) /\ IsKw(tt, 2, KwIf) /\ IsGrp(tt, 3, "(") /\ IsGrp(tt, 4, "{")
    THEN IF IsExpr(tt[3].ts, Idents) /\ c # <<>>
         THEN xfmt_if(Append(c, [kw |-> "else if", c |-> tt[3].ts[1].s,
                                 body |-> xfmt(<<>>, tt[4].ts)]), Drop(tt, 4))
         ELSE <<CompileError>>
    ELSE IF IsKw(tt, 1, KwElse) /\ IsKw(tt, 2, KwIf)
    THEN LET wp == with_parens(<<>>, Drop(tt, 2))
         IN  xfmt_if(c, <<Kw(KwElse), Kw(KwIf)>> \o wp.tt) \o wp.err
    \* else
    ELSE IF IsKw(tt, 1, KwElse) /\ IsGrp(tt, 2, "{")
    THEN IF c # <<>>
         THEN <<IfStmt(c, TRUE, xfmt(<<>>, tt[2].ts))>> \o xfmt(<<>>, Drop(tt, 2))
         ELSE <<CompileError>>
    \* term
    ELSE (IF c = <<>> THEN <<>> ELSE <<IfStmt(c, FALSE, <<>>)>>) \o xfmt(<<>>, tt)

(* `</ @ident($tag:expr) >`: the first tag close rule of __xfmt!; the     *)
(* number of tokens it matches, 0 when it does not match.                  *)
tag_close_rule_slash(tt) ==
    IF IsP(tt, 1, "<") /\ IsP(tt, 2, "/") /\ IsAt(tt, 3) /\ IsP(tt, 4, ">") THEN 4
    ELSE IF IsP(tt, 1, "<") /\ IsP(tt, 2, "/") /\ IsAt(tt, 3)
            /\ IsP(tt, 4, "/") /\ IsP(tt, 5, ">") THEN 5
    ELSE 0

tag_close_rule_never(tt) == 0

tag_close_rule(tt) ==
    IF IsP(tt, 1, "<") /\ IsP(tt, 2, "/") /\ IsAt(tt, 3) /\ IsP(tt, 4, ">") THEN 4 ELSE 0

(* __xfmt!: the rules in the order the macro lists them *)
xfmt(texts, tt) ==
    \* tag close
    IF tag_close_rule(tt) > 0
    THEN xfmt(texts \o << <<"<", "/">>, tt[3].s, <<">">> >>, Drop(tt, tag_close_rule(tt)))
    ELSE IF IsP(tt, 1, "<") /\ IsP(tt, 2, "/")
    THEN xfmt_ident("__xfmt", [texts |-> texts, lead |-> Take(tt, 2)], Drop(tt, 2))
    \* comment
    ELSE IF IsP(tt, 1, "<") /\ IsP(tt, 2, "!") /\ IsP(tt, 3, "-") /\ IsP(tt, 4, "-")
    THEN write_str(texts \o << <<"<", "!", "-", "-", " ">> >>) \o xfmt_comment(<<>>, Drop(tt, 4))
    \* CDATA: `[CDATA[ .. ]]` is one bracket group holding CDATA and a group
    ELSE IF IsP(tt, 1, "<") /\ IsP(tt, 2, "!") /\ IsGrp(tt, 3, "[") /\ IsP(tt, 4, ">")
            /\ Len(tt[3].ts) = 2 /\ IsKw(tt[3].ts, 1, <<"C", "D", "A", "T", "A">>)
            /\ IsGrp(tt[3].ts, 2, "[")
    THEN write_str(texts \o << <<"<", "!", "[", "C", "D", "A", "T", "A", "[">> >>)
         \o <<BodyStmt("CData", tt[3].ts[2].ts, fmt_body("CData", <<>>, tt[3].ts[2].ts))>>
         \o xfmt(<< <<"]", "]", ">">> >>, Drop(tt, 4))
    \* doctype
    ELSE IF IsP(tt, 1, "<") /\ IsP(tt, 2, "!") /\ IsAt(tt, 3)
    THEN xfmt_attrs("__xfmt_close_tag", texts \o << <<"<", "!">>, tt[3].s >>, Drop(tt, 3))
    ELSE IF IsP(tt, 1, "<") /\ IsP(tt, 2, "!")
    THEN xfmt_ident("__xfmt", [texts |-> texts, lead |-> Take(tt, 2)], Drop(tt, 2))
    \* declaration
    ELSE IF IsP(tt, 1, "<") /\ IsP(tt, 2, "?") /\ IsAt(tt, 3)
    THEN xfmt_attrs("__xfmt_close_decl", texts \o << <<"<", "?">>, tt[3].s >>, Drop(tt, 3))
    ELSE IF IsP(tt, 1, "<") /\ IsP(tt, 2, "?")
    THEN xfmt_ident("__xfmt", [texts |-> texts, lead |-> Take(tt, 2)], Drop(tt, 2))
    \* tag open
    ELSE IF IsP(tt, 1, "<") /\ IsAt(tt, 2)
    THEN xfmt_attrs("__xfmt_close_tag", texts \o << <<"<">>, tt[2].s >>, Drop(tt, 2))
    ELSE IF IsP(tt, 1, "<")
    THEN xfmt_ident("__xfmt", [texts |-> texts, lead |-> Take(tt, 1)], Drop(tt, 1))
    \* text
    ELSE IF IsLit(tt, 1) /\ IsLit(tt, 2)
    THEN xfmt(texts \o <<tt[1].s, tt[2].s>>, Drop(tt, 2))
    ELSE IF IsLit(tt, 1)
    THEN xfmt(texts \o <<tt[1].s>>, Drop(tt, 1))
    \* format
    ELSE IF IsGrp(tt, 1, "{")
    THEN write_str(texts) \o xfmt_format_text(tt[1].ts) \o xfmt(<<>>, Drop(tt, 1))
    \* escape hatch: `|f| { block }`.  (The rule for `|f| stmt;` is not
    \* modelled.)
    ELSE IF IsP(tt, 1, "|") /\ IsId(tt, 2) /\ IsP(tt, 3, "|") /\ IsGrp(tt, 4, "{")
    THEN write_str(texts)
         \o <<BodyStmt("none", tt[4].ts, block(tt[2].s, tt[4].ts))>>
         \o xfmt(<<>>, Drop(tt, 4))
    \* if
    ELSE IF IsKw(tt, 1, KwIf)
    THEN write_str(texts) \o xfmt_if(<<>>, tt)
    \* match.  The second rule transcribes `$($texts:expr,)*`: every pending
    \* text is followed by the tokens `: expr ,`, which no rule of __xfmt!
    \* accepts in `concat(..)`; with no pending text nothing is added.
    ELSE IF IsKw(tt, 1, KwMatch) /\ IsGrp(tt, 2, "(") /\ IsGrp(tt, 3, "{")
    THEN IF IsExpr(tt[2].ts, Idents)
         THEN write_str(texts) \o xfmt_match(tt[2].ts[1].s, <<>>, tt[3].ts)
              \o xfmt(<<>>, Drop(tt, 3))
         ELSE <<CompileError>>
    ELSE IF IsKw(tt, 1, KwMatch)
    THEN IF texts = <<>>
         THEN LET wp == with_parens(<<>>, Drop(tt, 1))
              IN  xfmt(<<>>, Take(tt, 1) \o wp.tt) \o wp.err
         ELSE <<CompileError>>
    \* for
    ELSE IF IsKw(tt, 1, KwFor) /\ IsId(tt, 2) /\ IsKw(tt, 3, KwIn)
            /\ IsGrp(tt, 4, "(") /\ IsGrp(tt, 5, "{")
    THEN IF tt[2].s \notin Keywords /\ IsExpr(tt[4].ts, Idents)
         THEN write_str(texts)
              \o <<ForStmt(tt[2].s, tt[4].ts[1].s, xfmt(<<>>, tt[5].ts))>>
              \o xfmt(<<>>, Drop(tt, 5))
         ELSE <<CompileError>>
    ELSE IF IsKw(tt, 1, KwFor) /\ IsId(tt, 2) /\ IsKw(tt, 3, KwIn)
    THEN IF tt[2].s \notin Keywords
         THEN LET wp == with_parens(<<>>, Drop(tt, 3))
              IN  xfmt(texts, Take(tt, 3) \o wp.tt) \o wp.err
         ELSE <<CompileError>>
    \* optimization
    ELSE IF IsGrp(tt, 1, "(")
    THEN xfmt(texts, tt[1].ts) \o xfmt(<<>>, Drop(tt, 1))
    \* term
    ELSE IF tt = <<>>
    THEN write_str(texts)
    ELSE <<CompileError>>

(* rustc accepts a match on a bool whose arms cover `true` and `false` *)
Exhaustive(arms) ==
    \/ \E j \in 1..Len(arms) : arms[j].pat = <<"_">>
    \/ /\ \E j \in 1..Len(arms) : arms[j].pat = <<"t", "r", "u", "e">>
       /\ \E j \in 1..Len(arms) : arms[j].pat = <<"f", "a", "l", "s", "e">>

RECURSIVE Compiles(_)
Compiles(prog) ==
    \A i \in 1..Len(prog) :
        CASE prog[i].op = "compile_error" -> FALSE
          [] prog[i].op = "if"  -> /\ \A j \in 1..Len(prog[i].arms) : Compiles(prog[i].arms[j].body)
                                   /\ Compiles(prog[i].els)
          [] prog[i].op = "for" -> Compiles(prog[i].body)
          [] prog[i].op = "match" ->
                /\ \A j \in 1..Len(prog[i].arms) : Compiles(prog[i].arms[j].body)
                /\ Exhaustive(prog[i].arms)
          [] prog[i].op = "body" -> Compiles(prog[i].prog)
          [] OTHER -> TRUE

----------------------------------------------------------------------------
(* Running an expansion: the body of the closure xfmt! hands to fmt().     *)
(* r = [k: the sink behind the Formatter, ok: no `?` has returned yet,     *)
(*      h: the write_str calls made so far, each with the wrapper it went  *)
(*         through ("none" for a call on the Formatter itself)].           *)

wrap_write_str(esc, k, s) ==
    CASE esc = "Text"           -> EscapeText_write_str(k, s)
      [] esc = "AttributeValue" -> EscapeAttrValue_write_str(k, s)
      [] esc = "Comment"        -> EscapeComment_write_str(k, s)
      [] esc = "CData"          -> EscapeCharData_write_str(k, s)
      [] OTHER                  -> SinkWrite(k, s)

exec_stmt(st, r, en) ==
    IF st.op = "write_str"
    THEN LET w == SinkWrite(r.k, st.s)
         IN  [k |-> w.k, ok |-> w.ok, h |-> Append(r.h, [esc |-> "none", s |-> st.s])]
    ELSE LET val == IF st.op = "fmt_lit" THEN st.s ELSE Format(st.e, en[st.e], st.spec)
             w   == wrap_write_str(st.esc, r.k, val)
         IN  [k |-> w.k, ok |-> w.ok, h |-> Append(r.h, [esc |-> st.esc, s |-> val])]

RECURSIVE exec(_, _, _)
RECURSIVE exec_if(_, _, _, _)
RECURSIVE exec_if_everyTrue(_, _, _, _)
RECURSIVE exec_for_reversed(_, _, _, _)
RECURSIVE exec_for(_, _, _, _)

(* the arms of an `if` statement: an arm with `if` starts a chain, `taken` *)
(* tells whether an earlier arm of the current chain ran                   *)
exec_if_everyTrue(st, taken, r, en) ==
    IF st.arms = <<>>
    THEN IF st.hasElse /\ ~taken THEN exec(st.els, r, en) ELSE r
    ELSE LET arm  == Head(st.arms)
             rest == [st EXCEPT !.arms = Tail(st.arms)]
         IN  IF en[arm.c]
             THEN LET r1 == exec(arm.body, r, en)
                  IN  IF ~r1.ok THEN r1 ELSE exec_if_everyTrue(rest, TRUE, r1, en)
             ELSE exec_if_everyTrue(rest, taken, r, en)

exec_if(st, taken, r, en) ==
    IF st.arms = <<>>
    THEN IF st.hasElse /\ ~taken THEN exec(st.els, r, en) ELSE r
    ELSE LET arm  == Head(st.arms)
             rest == [st EXCEPT !.arms = Tail(st.arms)]
             tk   == IF arm.kw = "if" THEN FALSE ELSE taken
         IN  IF ~tk /\ en[arm.c]
             THEN LET r1 == exec(arm.body, r, en)
                  IN  IF ~r1.ok THEN r1 ELSE exec_if(rest, TRUE, r1, en)
             ELSE exec_if(rest, tk, r, en)

(* `for $p in $e { body }` over the items left *)
exec_for_reversed(st, items, r, en) ==
    IF items = <<>> THEN r
    ELSE LET r1 == exec(st.body, r, (st.p :> items[Len(items)]) @@ en)
         IN  IF ~r1.ok THEN r1 ELSE exec_for_reversed(st, Take(items, Len(items) - 1), r1, en)

exec_for(st, items, r, en) ==
    IF items = <<>> THEN r
    ELSE LET r1 == exec(st.body, r, (st.p :> Head(items)) @@ en)
         IN  IF ~r1.ok THEN r1 ELSE exec_for(st, Tail(items), r1, en)

RECURSIVE exec_noQuestionMark(_, _, _)

(* the pattern matches the value of the scrutinee *)
Matches(pat, v) ==
    \/ pat = <<"_">>
    \/ pat = <<"t", "r", "u", "e">> /\ v
    \/ pat = <<"f", "a", "l", "s", "e">> /\ ~v

(* `match $e { .. }`: the body of the first arm whose pattern matches *)
exec_match(st, r, en) ==
    exec(st.arms[CHOOSE j \in 1..Len(st.arms) :
                    /\ Matches(st.arms[j].pat, en[st.e])
                    /\ \A i \in 1..(j - 1) : ~Matches(st.arms[i].pat, en[st.e])].body,
         r, en)

exec_noQuestionMark(prog, r, en) ==
    IF prog = <<>> THEN r
    ELSE LET r1 == exec_stmt(Head(prog), r, en)
         IN  exec_noQuestionMark(Tail(prog), [r1 EXCEPT !.ok = r.ok /\ r1.ok], en)

exec(prog, r, en) ==
    IF prog = <<>> THEN r
    ELSE LET st == Head(prog)
             r1 == CASE st.op = "if"  -> exec_if(st, FALSE, r, en)
                     [] st.op = "for" -> exec_for(st, en[st.e], r, en)
                     [] st.op = "match" -> exec_match(st, r, en)
                     [] st.op = "body" -> exec(st.prog, r, en)
                     [] OTHER         -> exec_stmt(st, r, en)
         IN  IF ~r1.ok THEN r1 ELSE exec(Tail(prog), r1, en)

----------------------------------------------------------------------------
(* The templates the model renders: a sequence of nodes as the author      *)
(* writes them, and the token trees the macro receives for them.           *)

\* nodes of a template
MaxNodes == 2
\* attributes of an open tag
MaxAttrs == 1

TextNode(s)        == [n |-> "text", s |-> s, attrs |-> <<>>, sc |-> FALSE]
InterpNode(v)      == [n |-> "interp", s |-> v, attrs |-> <<>>, sc |-> FALSE]
OpenNode(s, a, sc) == [n |-> "open", s |-> s, attrs |-> a, sc |-> sc]
CloseNode(s)       == [n |-> "close", s |-> s, attrs |-> <<>>, sc |-> FALSE]

Values   == {<<>>, <<"a">>, <<"<", APOS>>, <<QUOT, "&", ">">>}
TextLits == {<<"H", APOS>>, <<"&", "<">>}
AttrLits == {<<"<", APOS>>}
TagNames == {<<"p">>}
AttrKeys == {<<"x">>}

AttrOptions ==
    [key : AttrKeys, v : {"none"}, s : {<<>>}]
    \cup [key : AttrKeys, v : {"lit"}, s : AttrLits]
    \cup [key : AttrKeys, v : {"interp"}, s : Vars]

NodeOptions ==
    {TextNode(s) : s \in TextLits}
    \cup {InterpNode(v) : v \in Vars}
    \cup {OpenNode(nm, a, sc) : nm \in TagNames, a \in StrUpTo(AttrOptions, MaxAttrs),
                                sc \in BOOLEAN}
    \cup {CloseNode(nm) : nm \in TagNames}

Templates == StrUpTo(NodeOptions, MaxNodes)

AttrTokens(a) ==
    <<Id(a.key)>> \o
    (CASE a.v = "none"   -> <<>>
       [] a.v = "lit"    -> <<P("="), Lit(a.s)>>
       [] a.v = "interp" -> <<P("="), Grp("{", <<Id(a.s)>>)>>)

RECURSIVE AttrsTokens(_)
AttrsTokens(as) ==
    IF as = <<>> THEN <<>> ELSE AttrTokens(Head(as)) \o AttrsTokens(Tail(as))

NodeTokens(nd) ==
    CASE nd.n = "text"   -> <<Lit(nd.s)>>
      [] nd.n = "interp" -> <<Grp("{", <<Id(nd.s)>>)>>
      [] nd.n = "open"   -> <<P("<"), Id(nd.s)>> \o AttrsTokens(nd.attrs)
                            \o (IF nd.sc THEN <<P("/"), P(">")>> ELSE <<P(">")>>)
      [] nd.n = "close"  -> <<P("<"), P("/"), Id(nd.s), P(">")>>

RECURSIVE Tokens(_)
Tokens(nodes) ==
    IF nodes = <<>> THEN <<>> ELSE NodeTokens(Head(nodes)) \o Tokens(Tail(nodes))

(* xfmt!{ template }: `$crate::fmt(|_f| { __xfmt!{_f concat() ...} Ok(()) })` *)
xfmt_program(nodes) == xfmt(<<>>, Tokens(nodes))

Started(k) == [k |-> k, ok |-> TRUE, h |-> <<>>]

xfmt_render(nodes, k, en) == exec(xfmt_program(nodes), Started(k), en)

InitXfmt ==
    /\ wrap = "none"
    /\ calls = <<>>
    /\ \E faulty \in BOOLEAN :
         \E left \in (IF faulty THEN 0..MaxQuota ELSE {0}) :
            sink = NewSink(faulty, left)
    /\ res = "none"
    /\ tmpl \in Templates
    /\ env \in [Vars -> Values]

RenderXfmt ==
    /\ res = "none"
    /\ Compiles(xfmt_program(tmpl))
    /\ LET r == xfmt_render(tmpl, sink, env)
       IN  /\ sink' = r.k
           /\ calls' = r.h
           /\ res' = IF r.ok THEN "Ok" ELSE "Err"
    /\ UNCHANGED <<wrap, tmpl, env>>

NextXfmt == RenderXfmt

SpecXfmt == InitXfmt /\ [][NextXfmt]_vars

----------------------------------------------------------------------------
(* What a template is specified to render to, node by node.                *)

RefAttr(a, en) ==
    <<" ">> \o a.key \o
    (CASE a.v = "none"   -> <<>>
       [] a.v = "lit"    -> <<"=", QUOT>> \o a.s \o <<QUOT>>
       [] a.v = "interp" -> <<"=", QUOT>> \o ReplaceEach(en[a.s], AttrRule) \o <<QUOT>>)

RECURSIVE RefAttrs(_, _)
RefAttrs(as, en) ==
    IF as = <<>> THEN <<>> ELSE RefAttr(Head(as), en) \o RefAttrs(Tail(as), en)

RefNode(nd, en) ==
    CASE nd.n = "text"   -> nd.s
      [] nd.n = "interp" -> ReplaceEach(en[nd.s], TextRule)
      [] nd.n = "open"   -> <<"<">> \o nd.s \o RefAttrs(nd.attrs, en)
                            \o (IF nd.sc THEN <<" ", "/", ">">> ELSE <<">">>)
      [] nd.n = "close"  -> <<"<", "/">> \o nd.s \o <<">">>

RECURSIVE RefOut(_, _)
RefOut(nodes, en) ==
    IF nodes = <<>> THEN <<>> ELSE RefNode(Head(nodes), en) \o RefOut(Tail(nodes), en)

(* The interpolations of a template in source order, each with the         *)
(* escaping context of its position and the value it formats.              *)
RECURSIVE RefAttrInterps(_, _)
RefAttrInterps(as, en) ==
    IF as = <<>> THEN <<>>
    ELSE (IF Head(as).v = "interp"
          THEN <<[esc |-> "AttributeValue", s |-> en[Head(as).s]]>> ELSE <<>>)
         \o RefAttrInterps(Tail(as), en)

RECURSIVE RefInterps(_, _)
RefInterps(nodes, en) ==
    IF nodes = <<>> THEN <<>>
    ELSE (CASE Head(nodes).n = "interp" -> <<[esc |-> "Text", s |-> en[Head(nodes).s]]>>
            [] Head(nodes).n = "open"   -> RefAttrInterps(Head(nodes).attrs, en)
            [] OTHER                    -> <<>>)
         \o RefInterps(Tail(nodes), en)

(* The template with every interpolation left out: its literal text and    *)
(* the punctuation of its tags.                                            *)
RECURSIVE RefLiteral(_)
RefLiteral(nodes) ==
    IF nodes = <<>> THEN <<>>
    ELSE (IF Head(nodes).n = "interp" THEN <<>>
          ELSE RefNode(Head(nodes), [v \in Vars |-> <<>>]))
         \o RefLiteral(Tail(nodes))

RECURSIVE Through(_, _)
Through(h, escs) ==
    IF h = <<>> THEN <<>>
    ELSE (IF Head(h).esc \in escs THEN <<Head(h)>> ELSE <<>>) \o Through(Tail(h), escs)

RECURSIVE Texts(_)
Texts(h) == IF h = <<>> THEN <<>> ELSE Head(h).s \o Texts(Tail(h))

Rendered == res # "none" /\ sink.refused = 0

\* C3: in xfmt!, every braced interpolation in element content is written
\* through the Text escaper and every one in an attribute value through the
\* AttributeValue escaper; none reaches the sink unescaped or through the
\* other context's escaper.
C3_InterpolationContext ==
    Rendered =>
        /\ Through(calls, {"Text", "AttributeValue", "Comment", "CData", "Raw"})
              = RefInterps(tmpl, env)
        /\ sink.buf = RefOut(tmpl, env)

C3_Witness ==
    /\ Rendered
    /\ tmpl = <<OpenNode(<<"p">>, <<[key |-> <<"x">>, v |-> "interp", s |-> <<"v">>]>>, FALSE),
                InterpNode(<<"v">>)>>
    /\ env[<<"v">>] = <<"<", APOS>>
    /\ sink.buf = <<"<", "p", " ", "x", "=", QUOT, "&", "l", "t", ";",
                    "&", "a", "p", "o", "s", ";", QUOT, ">", "&", "l", "t", ";", APOS>>

\* C4: literal text nodes, literal attribute values and the punctuation the
\* parser emits are written to the sink verbatim and pass through no
\* escaper: the apostrophe of a literal appears unescaped in the output.
C4_LiteralsVerbatim ==
    Rendered =>
        /\ Texts(Through(calls, {"none"})) = RefLiteral(tmpl)
        /\ Len(Through(calls, {"Text", "AttributeValue", "Comment", "CData"}))
              = Len(RefInterps(tmpl, env))
        /\ (RefInterps(tmpl, env) = <<>> => sink.buf = RefLiteral(tmpl))

C4_Witness ==
    /\ Rendered
    /\ tmpl = <<OpenNode(<<"p">>, <<[key |-> <<"x">>, v |-> "lit", s |-> <<"<", APOS>>]>>, TRUE),
                TextNode(<<"H", APOS>>)>>
    /\ sink.buf = <<"<", "p", " ", "x", "=", QUOT, "<", APOS, QUOT, " ", "/", ">", "H", APOS>>

\* C10: when the sink refuses a write during a render (a literal flush or a
\* write made through an escaper), the render makes no further write,
\* returns the error, and what was written before stays in the sink.
C10_SinkErrorAborts ==
    (res # "none" /\ sink.faulty) =>
        LET full  == xfmt_render(tmpl, NewSink(FALSE, 0), env).k.writes
            quota == sink.left + Len(sink.writes)
        IN  IF Len(full) > quota
            THEN /\ res = "Err"
                 /\ sink.refused = 1
                 /\ sink.writes = Take(full, quota)
                 /\ sink.buf = Flatten(Take(full, quota))
            ELSE /\ res = "Ok"
                 /\ sink.refused = 0
                 /\ sink.writes = full

C10_Witness ==
    /\ res = "Err"
    /\ sink.refused = 1
    /\ Len(sink.writes) = 2
    /\ calls[Len(calls)].esc = "Text"
    /\ Len(xfmt_render(tmpl, NewSink(FALSE, 0), env).k.writes) > 3

C10_WitnessLiteral ==
    /\ res = "Err"
    /\ sink.refused = 1
    /\ Len(sink.writes) = 1
    /\ calls[Len(calls)].esc = "none"

----------------------------------------------------------------------------
(* lib.rs: format_xml! builds one format string and its argument list and  *)
(* ends in format_args!(fmt, args...).                                     *)
(* a = [ok, fmt: the concat!'d format string, args: the expressions]       *)

fx_error == [ok |-> FALSE, fmt |-> <<>>, args |-> <<>>]

(* concat!($fmt, $text): the literal's text becomes part of the format string *)
fx_text_escaped(s) == ReplaceEach(s, AttrRule)
fx_text(s) == s

RECURSIVE fx_tag1(_, _, _)
RECURSIVE fx_ident1(_, _, _, _)
RECURSIVE fx_ident2(_, _, _, _)
RECURSIVE fx_attrs1(_, _, _, _)
RECURSIVE fx_attrs2(_, _, _, _)

(* _format_tag2_!, _format_tag3_!, _format_tag4_! *)
fx_tag2(q, fmt, args, tt) ==
    IF q # <<>> THEN fx_error
    ELSE IF IsP(tt, 1, ">") THEN fx_tag1(fmt \o <<">">>, args, Drop(tt, 1))
    ELSE IF IsP(tt, 1, "/") /\ IsP(tt, 2, ">")
    THEN fx_tag1(fmt \o <<" ", "/", ">">>, args, Drop(tt, 2))
    ELSE fx_error

fx_tag3(q, fmt, args, tt) ==
    IF q # <<>> THEN fx_error
    ELSE IF IsP(tt, 1, ">") THEN fx_tag1(fmt \o <<">">>, args, Drop(tt, 1))
    ELSE fx_error

fx_tag4(q, fmt, args, tt) ==
    IF q # <<>> THEN fx_error
    ELSE IF IsP(tt, 1, "?") /\ IsP(tt, 2, ">")
    THEN fx_tag1(fmt \o <<"?", ">">>, args, Drop(tt, 2))
    ELSE fx_error

(* `$crate::$next!($($q!)*; fmt, args; tail)` *)
fx_next(q, fmt, args, tt) ==
    IF q = <<>> THEN fx_error
    ELSE CASE Head(q) = "_format_attrs1_" -> fx_attrs1(Tail(q), fmt, args, tt)
           [] Head(q) = "_format_attrs2_" -> fx_attrs2(Tail(q), fmt, args, tt)
           [] Head(q) = "_format_tag2_"   -> fx_tag2(Tail(q), fmt, args, tt)
           [] Head(q) = "_format_tag3_"   -> fx_tag3(Tail(q), fmt, args, tt)
           [] Head(q) = "_format_tag4_"   -> fx_tag4(Tail(q), fmt, args, tt)
           [] OTHER                       -> fx_error

(* _format_ident1_! *)
fx_ident1(q, fmt, args, tt) ==
    IF q = <<>> THEN fx_error
    ELSE IF IsId(tt, 1) /\ IsP(tt, 2, ":")
    THEN fx_ident2(q, fmt \o tt[1].s \o <<":">>, args, Drop(tt, 2))
    ELSE IF IsId(tt, 1) /\ IsP(tt, 2, "-")
    THEN fx_ident2(q, fmt \o tt[1].s \o <<"-">>, args, Drop(tt, 2))
    ELSE IF IsId(tt, 1)
    THEN fx_next(q, fmt \o tt[1].s, args, Drop(tt, 1))
    ELSE fx_error

(* _format_ident2_! *)
fx_ident2(q, fmt, args, tt) ==
    IF q = <<>> THEN fx_error
    ELSE IF IsId(tt, 1) /\ IsP(tt, 2, "-")
    THEN fx_ident2(q, fmt \o tt[1].s \o <<"-">>, args, Drop(tt, 2))
    ELSE IF IsId(tt, 1)
    THEN fx_next(q, fmt \o tt[1].s, args, Drop(tt, 1))
    ELSE fx_error

(* _format_attrs1_! *)
fx_attrs1(q, fmt, args, tt) ==
    IF q = <<>> THEN fx_error
    ELSE IF IsId(tt, 1)
    THEN fx_ident1(<<"_format_attrs2_">> \o q, fmt \o <<" ">>, args, tt)
    ELSE fx_next(q, fmt, args, tt)

(* _format_attrs2_! *)
fx_attrs2(q, fmt, args, tt) ==
    IF q = <<>> THEN fx_error
    ELSE IF IsP(tt, 1, "=") /\ IsLit(tt, 2)
    THEN fx_attrs1(q, fmt \o <<"=", QUOT>> \o tt[2].s \o <<QUOT>>, args, Drop(tt, 2))
    ELSE IF IsP(tt, 1, "=") /\ IsGrp(tt, 2, "{") /\ IsExpr(tt[2].ts, Vars)
    THEN fx_attrs1(q, fmt \o <<"=", QUOT, "{", "}", QUOT>>,
                   Append(args, tt[2].ts[1].s), Drop(tt, 2))
    ELSE fx_attrs1(q, fmt, args, tt)

(* _format_tag1_!: tags, text and `{e}`, in the order of the rules *)
fx_tag1(fmt, args, tt) ==
    IF IsP(tt, 1, "<") /\ IsP(tt, 2, "/")
    THEN fx_ident1(<<"_format_tag3_">>, fmt \o <<"<", "/">>, args, Drop(tt, 2))
    ELSE IF IsP(tt, 1, "<") /\ IsP(tt, 2, "?")
    THEN fx_ident1(<<"_format_attrs1_", "_format_tag4_">>, fmt \o <<"<", "?">>, args, Drop(tt, 2))
    ELSE IF IsP(tt, 1, "<") /\ IsP(tt, 2, "!")
    THEN fx_ident1(<<"_format_attrs1_", "_format_tag2_">>, fmt \o <<"<", "!">>, args, Drop(tt, 2))
    ELSE IF IsP(tt, 1, "<")
    THEN fx_ident1(<<"_format_attrs1_", "_format_tag2_">>, fmt \o <<"<">>, args, Drop(tt, 1))
    ELSE IF IsLit(tt, 1)
    THEN fx_tag1(fmt \o fx_text(tt[1].s), args, Drop(tt, 1))
    ELSE IF IsGrp(tt, 1, "{") /\ IsExpr(tt[1].ts, Vars)
    THEN fx_tag1(fmt \o <<"{", "}">>, Append(args, tt[1].ts[1].s), Drop(tt, 1))
    ELSE IF tt = <<>>
    THEN [ok |-> TRUE, fmt |-> fmt, args |-> args]
    ELSE fx_error

(* format_xml!{ template } *)
format_xml(nodes) == fx_tag1(<<>>, <<>>, Tokens(nodes))

(* format_args!: the format string is cut at its `{}` placeholders; `{{`   *)
(* and `}}` stand for one brace.  The result is the statements fmt::write  *)
(* runs: every non-empty piece is written, every argument displayed.       *)
RECURSIVE format_args(_, _, _)
format_args(fmt, args, piece) ==
    IF fmt = <<>> THEN write_str(IF piece = <<>> THEN <<>> ELSE <<piece>>)
    ELSE IF StartsWith(fmt, <<"{", "{">>)
    THEN format_args(Drop(fmt, 2), args, Append(piece, "{"))
    ELSE IF StartsWith(fmt, <<"}", "}">>)
    THEN format_args(Drop(fmt, 2), args, Append(piece, "}"))
    ELSE IF StartsWith(fmt, <<"{", "}">>) /\ args # <<>>
    THEN write_str(IF piece = <<>> THEN <<>> ELSE <<piece>>)
         \o <<FmtStmt("none", Head(args), <<>>)>>
         \o format_args(Drop(fmt, 2), Tail(args), <<>>)
    ELSE IF Head(fmt) \in {"{", "}"}
    THEN <<CompileError>>
    ELSE format_args(Tail(fmt), args, Append(piece, Head(fmt)))

format_xml_program(nodes) ==
    LET a == format_xml(nodes)
    IN  IF a.ok THEN format_args(a.fmt, a.args, <<>>) ELSE <<CompileError>>

format_xml_render(nodes, k, en) == exec(format_xml_program(nodes), Started(k), en)

InitFormatXml ==
    /\ wrap = "none"
    /\ calls = <<>>
    /\ \E faulty \in BOOLEAN :
         \E left \in (IF faulty THEN 0..MaxQuota ELSE {0}) :
            sink = NewSink(faulty, left)
    /\ res = "none"
    /\ tmpl \in Templates
    /\ env \in [Vars -> Values]

RenderFormatXml ==
    /\ res = "none"
    /\ Compiles(format_xml_program(tmpl))
    /\ LET r == format_xml_render(tmpl, sink, env)
       IN  /\ sink' = r.k
           /\ calls' = r.h
           /\ res' = IF r.ok THEN "Ok" ELSE "Err"
    /\ UNCHANGED <<wrap, tmpl, env>>

NextFormatXml == RenderFormatXml

SpecFormatXml == InitFormatXml /\ [][NextFormatXml]_vars

(* The output of a template whose literal text nodes go through `lits` and *)
(* whose interpolated values are displayed as they are.                    *)
RefFxAttr(a, en) ==
    <<" ">> \o a.key \o
    (CASE a.v = "none"   -> <<>>
       [] a.v = "lit"    -> <<"=", QUOT>> \o a.s \o <<QUOT>>
       [] a.v = "interp" -> <<"=", QUOT>> \o en[a.s] \o <<QUOT>>)

RECURSIVE RefFxAttrs(_, _)
RefFxAttrs(as, en) ==
    IF as = <<>> THEN <<>> ELSE RefFxAttr(Head(as), en) \o RefFxAttrs(Tail(as), en)

RECURSIVE RefFxOut(_, _, _)
RefFxOut(nodes, en, lits) ==
    IF nodes = <<>> THEN <<>>
    ELSE LET nd == Head(nodes)
         IN  (CASE nd.n = "text"   -> ReplaceEach(nd.s, lits)
                [] nd.n = "interp" -> en[nd.s]
                [] nd.n = "open"   -> <<"<">> \o nd.s \o RefFxAttrs(nd.attrs, en)
                                      \o (IF nd.sc THEN <<" ", "/", ">">> ELSE <<">">>)
                [] nd.n = "close"  -> <<"<", "/">> \o nd.s \o <<">">>)
             \o RefFxOut(Tail(nodes), en, lits)

NoRule == [c \in {} |-> <<>>]

----------------------------------------------------------------------------
(* Tags: templates made of open, self-closing and close tags, the close    *)
(* tags well-formed or followed by something other than `>`.               *)

\* tags of a tag sequence
MaxTags == 2
\* attributes of the open tag of a one-tag template
MaxTagAttrs == 2

BadCloseNode(s, after) == [n |-> "badclose", s |-> s, attrs |-> <<>>, sc |-> FALSE,
                           after |-> after]

SeqTagNames == {<<"a">>, <<"b">>}
TagAttrKeys == {<<"x">>, <<"y">>}
TagAttrLits == {<<"0">>}
BadAfters   == {"slash", "attr"}

TagAttrOptions ==
    [key : TagAttrKeys, v : {"none"}, s : {<<>>}]
    \cup [key : TagAttrKeys, v : {"lit"}, s : TagAttrLits]
    \cup [key : TagAttrKeys, v : {"interp"}, s : Vars]

(* one open tag with its attributes *)
OneTagTemplates ==
    {<<OpenNode(nm, a, sc)>> : nm \in SeqTagNames,
                               a \in StrUpTo(TagAttrOptions, MaxTagAttrs) \ {<<>>},
                               sc \in BOOLEAN}

WellFormedTags ==
    {OpenNode(nm, <<>>, sc) : nm \in SeqTagNames, sc \in BOOLEAN}
    \cup {CloseNode(nm) : nm \in SeqTagNames}

BadCloseTags == {BadCloseNode(nm, af) : nm \in SeqTagNames, af \in BadAfters}

(* a sequence of tags, possibly ending in a close tag cut off by the end   *)
(* of the input                                                            *)
TagSeqTemplates ==
    {s \o e : s \in StrUpTo(WellFormedTags \cup BadCloseTags, MaxTags),
              e \in {<<>>} \cup {<<BadCloseNode(nm, "eoi")>> : nm \in SeqTagNames}}

TagTemplates == OneTagTemplates \cup TagSeqTemplates

TagNodeTokens(nd) ==
    IF nd.n = "badclose"
    THEN <<P("<"), P("/"), Id(nd.s)>> \o
         (CASE nd.after = "slash" -> <<P("/"), P(">")>>
            [] nd.after = "attr"  -> <<Id(<<"x">>), P(">")>>
            [] nd.after = "eoi"   -> <<>>)
    ELSE NodeTokens(nd)

RECURSIVE TagTokens(_)
TagTokens(nodes) ==
    IF nodes = <<>> THEN <<>> ELSE TagNodeTokens(Head(nodes)) \o TagTokens(Tail(nodes))

tags_program(nodes) == xfmt(<<>>, TagTokens(nodes))

InitTags ==
    /\ wrap = "none"
    /\ calls = <<>>
    /\ sink = NewSink(FALSE, 0)
    /\ res = "none"
    /\ tmpl \in TagTemplates
    /\ env \in [Vars -> Values]

(* the expansion compiles and the closure runs *)
RenderTags ==
    /\ res = "none"
    /\ Compiles(tags_program(tmpl))
    /\ LET r == exec(tags_program(tmpl), Started(sink), env)
       IN  /\ sink' = r.k
           /\ calls' = r.h
           /\ res' = IF r.ok THEN "Ok" ELSE "Err"
    /\ UNCHANGED <<wrap, tmpl, env>>

(* the expansion holds a compile error: there is no program to run *)
RejectTags ==
    /\ res = "none"
    /\ ~Compiles(tags_program(tmpl))
    /\ res' = "CompileError"
    /\ UNCHANGED <<wrap, calls, sink, tmpl, env>>

NextTags == RenderTags \/ RejectTags

SpecTags == InitTags /\ [][NextTags]_vars

HasBadClose(nodes) == \E i \in 1..Len(nodes) : nodes[i].n = "badclose"

CountOf(s, c) == Cardinality({i \in 1..Len(s) : s[i] = c})

\* C11: an open tag renders as `<`, the name, each attribute preceded by
\* exactly one space, then `>` with no space before it, or ` />` with
\* exactly one space before it for a self-closing tag.
C11_OpenTagShape ==
    (res # "none" /\ tmpl \in OneTagTemplates) =>
        LET nd  == tmpl[1]
            val == [a \in TagAttrOptions |->
                      CASE a.v = "none"   -> <<>>
                        [] a.v = "lit"    -> <<"=", QUOT>> \o a.s \o <<QUOT>>
                        [] a.v = "interp" -> <<"=", QUOT>>
                                             \o ReplaceEach(env[a.s], AttrRule) \o <<QUOT>>]
            as  == Flatten([i \in 1..Len(nd.attrs) |->
                              <<" ">> \o nd.attrs[i].key \o val[nd.attrs[i]]])
            n   == Len(sink.buf)
        IN  /\ res = "Ok"
            /\ sink.buf = <<"<">> \o nd.s \o as
                          \o (IF nd.sc THEN <<" ", "/", ">">> ELSE <<">">>)
            /\ CountOf(sink.buf, " ") = Len(nd.attrs) + (IF nd.sc THEN 1 ELSE 0)
            /\ sink.buf[n] = ">"
            /\ sink.buf[n - 1] # " "

C11_Witness ==
    /\ res = "Ok"
    /\ tmpl = <<OpenNode(<<"a">>, <<[key |-> <<"x">>, v |-> "lit", s |-> <<"0">>],
                                    [key |-> <<"y">>, v |-> "interp", s |-> <<"v">>]>>, TRUE)>>
    /\ env[<<"v">>] = <<"a">>
    /\ sink.buf = <<"<", "a", " ", "x", "=", QUOT, "0", QUOT,
                    " ", "y", "=", QUOT, "a", QUOT, " ", "/", ">">>

\* C12: a closing tag `</name` followed by anything but `>` (a `/`, an
\* attribute, or the end of the input) makes the template fail to compile,
\* and nothing is written for it.
C12_CloseTagNeedsGt ==
    (res # "none" /\ tmpl \in TagSeqTemplates /\ HasBadClose(tmpl)) =>
        /\ res = "CompileError"
        /\ sink.writes = <<>>
        /\ calls = <<>>

C12_Witness ==
    /\ res = "CompileError"
    /\ tmpl = <<OpenNode(<<"a">>, <<>>, FALSE), BadCloseNode(<<"a">>, "slash")>>
    /\ sink.buf = <<>>

C12_WitnessEoi ==
    /\ res = "CompileError"
    /\ tmpl = <<BadCloseNode(<<"b">>, "eoi")>>

\* C13: any sequence of well-formed open, self-closing and close tags is
\* accepted whatever the names and the nesting, and each tag is rendered
\* as written.
C13_NoOpenTagRecord ==
    (res # "none" /\ tmpl \in TagSeqTemplates /\ ~HasBadClose(tmpl)) =>
        /\ res = "Ok"
        /\ sink.buf = Flatten([i \in 1..Len(tmpl) |->
                         CASE tmpl[i].n = "close" -> <<"<", "/">> \o tmpl[i].s \o <<">">>
                           [] tmpl[i].sc         -> <<"<">> \o tmpl[i].s \o <<" ", "/", ">">>
                           [] OTHER              -> <<"<">> \o tmpl[i].s \o <<">">>])

C13_Witness ==
    /\ res = "Ok"
    /\ tmpl = <<OpenNode(<<"a">>, <<>>, FALSE), CloseNode(<<"b">>)>>
    /\ sink.buf = <<"<", "a", ">", "<", "/", "b", ">">>

C13_WitnessCloseFirst ==
    /\ res = "Ok"
    /\ tmpl = <<CloseNode(<<"a">>), OpenNode(<<"a">>, <<>>, TRUE)>>
    /\ sink.buf = <<"<", "/", "a", ">", "<", "a", " ", "/", ">">>
----------------------------------------------------------------------------
(* Control flow: templates with an `if` chain or a `for` loop between      *)
(* other nodes.                                                            *)

\* items of the iterable of a `for`
MaxItems == 2

Digits     == <<"1", "2", "3", "4">>
CondVar(j) == <<"c", Digits[j]>>
BodyLetter == <<"A", "B", "C", "D">>

(* arms: the guards and bodies in source order; par: the guards are        *)
(* written in parentheses; a chain with noBlock ends after its last guard  *)
IfNode(arms, par, hasElse, els) ==
    [n |-> "if", arms |-> arms, par |-> par, hasElse |-> hasElse, els |-> els,
     noBlock |-> FALSE]
IfNoBlock(arms, par) ==
    [n |-> "if", arms |-> arms, par |-> par, hasElse |-> FALSE, els |-> <<>>,
     noBlock |-> TRUE]
OrphanElse(els) == [n |-> "else", els |-> els]
ForNode(p, e, par, body) ==
    [n |-> "for", p |-> p, e |-> e, par |-> par, body |-> body, noBlock |-> FALSE]
ForNoBlock(p, e, par) ==
    [n |-> "for", p |-> p, e |-> e, par |-> par, body |-> <<>>, noBlock |-> TRUE]

RECURSIVE CtlTokens(_)
RECURSIVE ArmsTokens(_, _, _)

Guard(c, par) == IF par THEN <<Grp("(", <<Id(c)>>)>> ELSE <<Id(c)>>

ArmsTokens(arms, par, first) ==
    IF arms = <<>> THEN <<>>
    ELSE (IF first THEN <<Kw(KwIf)>> ELSE <<Kw(KwElse), Kw(KwIf)>>)
         \o Guard(Head(arms).c, par)
         \o (IF Head(arms).body = "none" THEN <<>>
             ELSE <<Grp("{", CtlTokens(Head(arms).body))>>)
         \o ArmsTokens(Tail(arms), par, FALSE)

CtlNodeTokens(nd) ==
    CASE nd.n = "if"   -> ArmsTokens(IF nd.noBlock
                                     THEN [nd.arms EXCEPT ![Len(nd.arms)].body = "none"]
                                     ELSE nd.arms, nd.par, TRUE)
                          \o (IF nd.hasElse
                              THEN <<Kw(KwElse), Grp("{", CtlTokens(nd.els))>> ELSE <<>>)
      [] nd.n = "else" -> <<Kw(KwElse), Grp("{", CtlTokens(nd.els))>>
      [] nd.n = "for"  -> <<Kw(KwFor), Id(nd.p), Kw(KwIn)>> \o Guard(nd.e, nd.par)
                          \o (IF nd.noBlock THEN <<>>
                              ELSE <<Grp("{", CtlTokens(nd.body))>>)
      [] OTHER         -> NodeTokens(nd)

CtlTokens(nodes) ==
    IF nodes = <<>> THEN <<>> ELSE CtlNodeTokens(Head(nodes)) \o CtlTokens(Tail(nodes))

ctl_program(nodes) == xfmt(<<>>, CtlTokens(nodes))

(* the chains of the model: arm j is guarded by c<j> and writes letter j,  *)
(* the else body interpolates v                                            *)
Arms(n) == [j \in 1..n |-> [c |-> CondVar(j), body |-> <<TextNode(<<BodyLetter[j]>>)>>]]

IfNodes ==
    {IfNode(Arms(n), par, hasElse, IF hasElse THEN <<TextNode(<<"E">>), InterpNode(<<"v">>)>>
                                   ELSE <<>>) :
        n \in 1..MaxArms, par \in BOOLEAN, hasElse \in BOOLEAN}

CtlPre == {<<>>, <<TextNode(<<"P">>)>>}

IfPost ==
    {<<>>, <<TextNode(<<"Z">>)>>, <<InterpNode(<<"v">>)>>,
     <<IfNode(<<[c |-> CondVar(1), body |-> <<TextNode(<<"Y">>)>>]>>, TRUE, FALSE, <<>>)>>}

IfTemplates == {pre \o <<nd>> \o post : pre \in CtlPre, nd \in IfNodes, post \in IfPost}

BadIfTemplates ==
    {pre \o <<IfNoBlock(Arms(n), par)>> : pre \in CtlPre, n \in 1..MaxArms, par \in BOOLEAN}
    \cup {pre \o <<OrphanElse(<<TextNode(<<"E">>)>>)>> : pre \in CtlPre}

InitIf ==
    /\ wrap = "none"
    /\ calls = <<>>
    /\ sink = NewSink(FALSE, 0)
    /\ res = "none"
    /\ tmpl \in IfTemplates \cup BadIfTemplates
    /\ \E val \in Values, g \in [1..MaxArms -> BOOLEAN] :
          env = [x \in Vars \cup {CondVar(j) : j \in 1..MaxArms} |->
                   IF x \in Vars THEN val
                   ELSE g[CHOOSE j \in 1..MaxArms : CondVar(j) = x]]

RenderCtl ==
    /\ res = "none"
    /\ Compiles(ctl_program(tmpl))
    /\ LET r == exec(ctl_program(tmpl), Started(sink), env)
       IN  /\ sink' = r.k
           /\ calls' = r.h
           /\ res' = IF r.ok THEN "Ok" ELSE "Err"
    /\ UNCHANGED <<wrap, tmpl, env>>

RejectCtl ==
    /\ res = "none"
    /\ ~Compiles(ctl_program(tmpl))
    /\ res' = "CompileError"
    /\ UNCHANGED <<wrap, calls, sink, tmpl, env>>

NextIf == RenderCtl \/ RejectCtl

SpecIf == InitIf /\ [][NextIf]_vars

(* What the nodes are specified to write: of a chain the body of the first *)
(* true guard, else the else body, else nothing; of a loop the body once   *)
(* per item.                                                               *)
RECURSIVE RefCtl(_, _)
RECURSIVE RefLoop(_, _, _)

FirstTrue(arms, en) ==
    IF \E j \in 1..Len(arms) : en[arms[j].c]
    THEN CHOOSE j \in 1..Len(arms) :
            en[arms[j].c] /\ \A i \in 1..(j - 1) : ~en[arms[i].c]
    ELSE 0

RefLoop(nd, items, en) ==
    IF items = <<>> THEN <<>>
    ELSE RefCtl(nd.body, (nd.p :> Head(items)) @@ en) \o RefLoop(nd, Tail(items), en)

RefCtl(nodes, en) ==
    IF nodes = <<>> THEN <<>>
    ELSE LET nd == Head(nodes)
         IN  (CASE nd.n = "if"  -> IF FirstTrue(nd.arms, en) > 0
                                   THEN RefCtl(nd.arms[FirstTrue(nd.arms, en)].body, en)
                                   ELSE IF nd.hasElse THEN RefCtl(nd.els, en) ELSE <<>>
                [] nd.n = "for" -> RefLoop(nd, en[nd.e], en)
                [] OTHER        -> RefNode(nd, en))
             \o RefCtl(Tail(nodes), en)

\* C14: of an `if` / `else if` / `else` chain exactly one body is rendered,
\* that of the first true guard in source order; with no true guard the
\* `else` body, and without `else` nothing; the nodes after the chain are
\* rendered in every case.
C14_IfSelectsOneBranch ==
    (res # "none" /\ tmpl \in IfTemplates) =>
        /\ res = "Ok"
        /\ sink.buf = RefCtl(tmpl, env)
        /\ \A j \in 1..MaxArms :
              CountOf(sink.buf, BodyLetter[j])
                 = IF \E i \in 1..Len(tmpl) :
                         tmpl[i].n = "if" /\ FirstTrue(tmpl[i].arms, env) = j
                            /\ tmpl[i].arms[j].body = <<TextNode(<<BodyLetter[j]>>)>>
                   THEN 1 ELSE 0

C14_Witness ==
    /\ res = "Ok"
    /\ tmpl = <<TextNode(<<"P">>),
                IfNode(Arms(2), TRUE, TRUE, <<TextNode(<<"E">>), InterpNode(<<"v">>)>>),
                TextNode(<<"Z">>)>>
    /\ ~env[CondVar(1)] /\ env[CondVar(2)]
    /\ sink.buf = <<"P", "B", "Z">>

C14_WitnessElse ==
    /\ res = "Ok"
    /\ tmpl = <<IfNode(Arms(2), FALSE, TRUE, <<TextNode(<<"E">>), InterpNode(<<"v">>)>>),
                InterpNode(<<"v">>)>>
    /\ ~env[CondVar(1)] /\ ~env[CondVar(2)]
    /\ env[<<"v">>] = <<"a">>
    /\ sink.buf = <<"E", "a", "a">>

C14_WitnessNothing ==
    /\ res = "Ok"
    /\ tmpl = <<TextNode(<<"P">>), IfNode(Arms(1), TRUE, FALSE, <<>>), TextNode(<<"Z">>)>>
    /\ ~env[CondVar(1)]
    /\ sink.buf = <<"P", "Z">>
----------------------------------------------------------------------------
(* `for` loops over the items of xs.                                       *)

Items == {<<"1">>, <<"2">>, <<"<">>}

ForBodies ==
    {<<InterpNode(<<"i">>)>>,
     <<TextNode(<<"L">>)>>,
     <<OpenNode(<<"p">>, <<>>, FALSE), InterpNode(<<"i">>), CloseNode(<<"p">>)>>}

ForNodes == {ForNode(<<"i">>, <<"x", "s">>, par, b) : par \in BOOLEAN, b \in ForBodies}

ForPost == {<<>>, <<TextNode(<<"Z">>)>>, <<InterpNode(<<"v">>)>>}

ForTemplates == {pre \o <<nd>> \o post : pre \in CtlPre, nd \in ForNodes, post \in ForPost}

BadForTemplates ==
    {pre \o <<ForNoBlock(<<"i">>, <<"x", "s">>, par)>> : pre \in CtlPre, par \in BOOLEAN}

InitFor ==
    /\ wrap = "none"
    /\ calls = <<>>
    /\ sink = NewSink(FALSE, 0)
    /\ res = "none"
    /\ tmpl \in ForTemplates \cup BadForTemplates
    /\ \E val \in Values, xs \in StrUpTo(Items, MaxItems) :
          env = [x \in Vars \cup IterVars |-> IF x \in Vars THEN val ELSE xs]

NextFor == RenderCtl \/ RejectCtl

SpecFor == InitFor /\ [][NextFor]_vars

(* the values interpolated through the Text escaper, in the order written *)
TextValues(h) == [j \in 1..Len(Through(h, {"Text"})) |-> Through(h, {"Text"})[j].s]

\* C15: a `for` node renders its body once per item of the iterable, in
\* the iterable's order, the output of one iteration wholly before that of
\* the next; what precedes the loop is written before the first iteration
\* and the rest of the template after the last.
C15_ForInOrder ==
    (res # "none" /\ tmpl \in ForTemplates) =>
        LET k    == CHOOSE i \in 1..Len(tmpl) : tmpl[i].n = "for"
            xs   == env[tmpl[k].e]
            one  == [j \in 1..Len(xs) |->
                       RefOut(tmpl[k].body, (tmpl[k].p :> xs[j]) @@ env)]
            uses == \E i \in 1..Len(tmpl[k].body) : tmpl[k].body[i].n = "interp"
        IN  /\ res = "Ok"
            /\ sink.buf = RefOut(Take(tmpl, k - 1), env) \o Flatten(one)
                          \o RefOut(Drop(tmpl, k), env)
            /\ TextValues(calls)
                  = (IF uses THEN xs ELSE <<>>)
                    \o (IF tmpl[Len(tmpl)].n = "interp" THEN <<env[<<"v">>]>> ELSE <<>>)

C15_Witness ==
    /\ res = "Ok"
    /\ tmpl = <<TextNode(<<"P">>),
                ForNode(<<"i">>, <<"x", "s">>, TRUE,
                        <<OpenNode(<<"p">>, <<>>, FALSE), InterpNode(<<"i">>),
                          CloseNode(<<"p">>)>>),
                TextNode(<<"Z">>)>>
    /\ env[<<"x", "s">>] = <<<<"2">>, <<"1">>>>
    /\ sink.buf = <<"P", "<", "p", ">", "2", "<", "/", "p", ">",
                    "<", "p", ">", "1", "<", "/", "p", ">", "Z">>

C15_WitnessEmpty ==
    /\ res = "Ok"
    /\ tmpl = <<TextNode(<<"P">>), ForNode(<<"i">>, <<"x", "s">>, FALSE, <<TextNode(<<"L">>)>>),
                TextNode(<<"Z">>)>>
    /\ env[<<"x", "s">>] = <<>>
    /\ sink.buf = <<"P", "Z">>
----------------------------------------------------------------------------
(* Names: one tag whose name, or whose attribute's name, is a run of       *)
(* identifier fragments joined by separators, or a string literal.         *)

\* separators of a name
MaxSeps == 2

Separators == {":", "-", "."}
Fragments  == <<"a", "b", "c", "d">>
NameLits   == {<<"a", "-", "0">>, <<"0">>}
NamePlaces == {"open", "close", "attr"}

(* seps: the separators in order; fragment j is the j-th of Fragments     *)
FragName(seps) == [lit |-> FALSE, seps |-> seps, s |-> <<>>]
LitName(s)     == [lit |-> TRUE, seps |-> <<>>, s |-> s]

Names == {FragName(seps) : seps \in StrUpTo(Separators, MaxSeps)}
         \cup {LitName(s) : s \in NameLits}

NameNode(place, nm) == [n |-> "name", place |-> place, nm |-> nm]

NameTemplates == {<<NameNode(pl, nm)>> : pl \in NamePlaces, nm \in Names}

RECURSIVE FragTokens(_, _)
FragTokens(seps, j) ==
    <<Id(<<Fragments[j]>>)>>
    \o (IF seps = <<>> THEN <<>> ELSE <<P(Head(seps))>> \o FragTokens(Tail(seps), j + 1))

NameTokens(nm) == IF nm.lit THEN <<Lit(nm.s)>> ELSE FragTokens(nm.seps, 1)

NameNodeTokens(nd) ==
    CASE nd.place = "open"  -> <<P("<")>> \o NameTokens(nd.nm) \o <<P(">")>>
      [] nd.place = "close" -> <<P("<"), P("/")>> \o NameTokens(nd.nm) \o <<P(">")>>
      [] nd.place = "attr"  -> <<P("<"), Id(<<"t">>)>> \o NameTokens(nd.nm)
                               \o <<P("="), Lit(<<"0">>), P(">")>>

names_program(nodes) == xfmt(<<>>, NameNodeTokens(nodes[1]))

InitNames ==
    /\ wrap = "none"
    /\ calls = <<>>
    /\ sink = NewSink(FALSE, 0)
    /\ res = "none"
    /\ tmpl \in NameTemplates
    /\ env \in [Vars -> Values]

RenderNames ==
    /\ res = "none"
    /\ Compiles(names_program(tmpl))
    /\ LET r == exec(names_program(tmpl), Started(sink), env)
       IN  /\ sink' = r.k
           /\ calls' = r.h
           /\ res' = IF r.ok THEN "Ok" ELSE "Err"
    /\ UNCHANGED <<wrap, tmpl, env>>

RejectNames ==
    /\ res = "none"
    /\ ~Compiles(names_program(tmpl))
    /\ res' = "CompileError"
    /\ UNCHANGED <<wrap, calls, sink, tmpl, env>>

NextNames == RenderNames \/ RejectNames

SpecNames == InitNames /\ [][NextNames]_vars

(* the text of a name: its fragments and separators in order *)
RECURSIVE FragText(_, _)
FragText(seps, j) ==
    <<Fragments[j]>>
    \o (IF seps = <<>> THEN <<>> ELSE <<Head(seps)>> \o FragText(Tail(seps), j + 1))

NameText(nm) == IF nm.lit THEN nm.s ELSE FragText(nm.seps, 1)

Named(nd) ==
    CASE nd.place = "open"  -> <<"<">> \o NameText(nd.nm) \o <<">">>
      [] nd.place = "close" -> <<"<", "/">> \o NameText(nd.nm) \o <<">">>
      [] nd.place = "attr"  -> <<"<", "t", " ">> \o NameText(nd.nm)
                               \o <<"=", QUOT, "0", QUOT, ">">>

(* `:` only as the first separator *)
ColonFirstOnly(nm) == \A j \in 2..Len(nm.seps) : nm.seps[j] # ":"

\* C16 as stated: fragments joined by `:`, `-`, `.` in any number and
\* order are one Name, its text the concatenation of the fragments and
\* separators; a single string literal is an atomic name.
C16_AnySeparatorOrder ==
    (res # "none" /\ tmpl \in NameTemplates) =>
        /\ res = "Ok"
        /\ sink.buf = Named(tmpl[1])

\* C16 as amended: a name is one fragment, optionally followed by `:` and
\* a fragment, then any run of `-` or `.` and a fragment; its text is the
\* concatenation of the fragments and separators.  A `:` anywhere but as
\* the first separator ends the name before it and the template fails to
\* compile.  A single string literal is an atomic name.
C16_NameGrammar ==
    (res # "none" /\ tmpl \in NameTemplates) =>
        IF ColonFirstOnly(tmpl[1].nm)
        THEN /\ res = "Ok"
             /\ sink.buf = Named(tmpl[1])
        ELSE /\ res = "CompileError"
             /\ sink.buf = <<>>

C16_Witness ==
    /\ res = "Ok"
    /\ tmpl = <<NameNode("open", FragName(<<":", "-">>))>>
    /\ sink.buf = <<"<", "a", ":", "b", "-", "c", ">">>

C16_WitnessColonLater ==
    /\ res = "CompileError"
    /\ tmpl = <<NameNode("open", FragName(<<"-", ":">>))>>

C16_WitnessLiteral ==
    /\ res = "Ok"
    /\ tmpl = <<NameNode("close", LitName(<<"a", "-", "0">>))>>
    /\ sink.buf = <<"<", "/", "a", "-", "0", ">">>
----------------------------------------------------------------------------
(* Comments: `<!--`, a body of tokens, and `-->` or the end of the input.  *)

\* items of a comment body
MaxBodyItems == 2

DashNode == [n |-> "dash"]

CommentValues == {<<"a">>, <<"-", "-", "b">>, <<"<">>}

(* text, an interpolation, tokens that look like a tag, tokens that look   *)
(* like control flow, and a lone `-`                                       *)
BodyItems ==
    {TextNode(<<"x", "-", "-", "y">>),
     InterpNode(<<"v">>),
     OpenNode(<<"p">>, <<>>, FALSE),
     IfNode(Arms(1), FALSE, FALSE, <<>>),
     DashNode}

CommentNode(body, closed) == [n |-> "comment", body |-> body, closed |-> closed]

CommentPost == {<<>>, <<TextNode(<<"Z">>)>>, <<OpenNode(<<"p">>, <<>>, FALSE)>>}

CommentTemplates ==
    {pre \o <<CommentNode(b, closed)>> \o post :
        pre \in CtlPre, b \in StrUpTo(BodyItems, MaxBodyItems), closed \in BOOLEAN,
        post \in CommentPost}

RECURSIVE BodyTokens(_)
BodyTokens(items) ==
    IF items = <<>> THEN <<>>
    ELSE (IF Head(items).n = "dash" THEN <<P("-")>> ELSE CtlNodeTokens(Head(items)))
         \o BodyTokens(Tail(items))

RECURSIVE CommentTokens(_)
CommentTokens(nodes) ==
    IF nodes = <<>> THEN <<>>
    ELSE (IF Head(nodes).n = "comment"
          THEN <<P("<"), P("!"), P("-"), P("-")>> \o BodyTokens(Head(nodes).body)
               \o (IF Head(nodes).closed THEN <<P("-"), P("->")>> ELSE <<>>)
          ELSE NodeTokens(Head(nodes)))
         \o CommentTokens(Tail(nodes))

comment_program(nodes) == xfmt(<<>>, CommentTokens(nodes))

InitComment ==
    /\ wrap = "none"
    /\ calls = <<>>
    /\ sink = NewSink(FALSE, 0)
    /\ res = "none"
    /\ tmpl \in CommentTemplates
    /\ env \in [Vars -> CommentValues]

RenderComment ==
    /\ res = "none"
    /\ Compiles(comment_program(tmpl))
    /\ LET r == exec(comment_program(tmpl), Started(sink), env)
       IN  /\ sink' = r.k
           /\ calls' = r.h
           /\ res' = IF r.ok THEN "Ok" ELSE "Err"
    /\ UNCHANGED <<wrap, tmpl, env>>

RejectComment ==
    /\ res = "none"
    /\ ~Compiles(comment_program(tmpl))
    /\ res' = "CompileError"
    /\ UNCHANGED <<wrap, calls, sink, tmpl, env>>

NextComment == RenderComment \/ RejectComment

SpecComment == InitComment /\ [][NextComment]_vars

CommentAt(nodes) == CHOOSE i \in 1..Len(nodes) : nodes[i].n = "comment"

(* a body of text and interpolations only *)
PlainBody(items) == \A i \in 1..Len(items) : items[i].n \in {"text", "interp"}

RECURSIVE WrittenTexts(_)
WrittenTexts(prog) ==
    IF prog = <<>> THEN <<>>
    ELSE (IF Head(prog).op = "write_str" THEN Head(prog).s ELSE <<>>)
         \o WrittenTexts(Tail(prog))

C17_WitnessTagLike ==
    /\ res # "none"
    /\ tmpl = <<CommentNode(<<OpenNode(<<"p">>, <<>>, FALSE),
                              IfNode(Arms(1), FALSE, FALSE, <<>>)>>, TRUE),
                TextNode(<<"Z">>)>>

C17_WitnessUnterminated ==
    /\ res = "CompileError"
    /\ tmpl = <<CommentNode(<<TextNode(<<"x", "-", "-", "y">>)>>, FALSE), TextNode(<<"Z">>)>>
----------------------------------------------------------------------------
(* html.rs: join(sep, collection) and join!(sep, e, ...).  In this         *)
(* specification env holds the separator and the items.                    *)

\* items of a joined collection
MaxJoinItems == 3

JoinSeps  == {<<>>, <<",">>, <<"-", "-">>}
JoinItems == {<<>>, <<"1">>, <<"2", "3">>}

(* the loop of join over the items left; draw: an item was written before *)
RECURSIVE join_loop(_, _, _, _)
join_loop(sep, items, draw, r) ==
    IF items = <<>> THEN r
    ELSE LET r1 == IF Len(sep) > 0 /\ draw
                   THEN exec_stmt(WriteStrStmt(sep), r, <<>>)
                   ELSE r
         IN  IF ~r1.ok THEN r1
             ELSE LET r2 == exec_stmt(FmtStmt("none", <<"item">>, <<>>), r1, <<"item">> :> Head(items))
                  IN  IF ~r2.ok THEN r2
                      ELSE join_loop(sep, Tail(items), IF Len(sep) > 0 THEN TRUE ELSE draw, r2)

join_drawFirst(sep, items, r) == join_loop(sep, items, TRUE, r)

join(sep, items, r) == join_loop(sep, items, FALSE, r)

(* _join_impl_!: the format string and the arguments of join! *)
RECURSIVE join_impl(_, _, _, _, _)
join_impl(fmt, args, s, sep, es) ==
    IF Len(es) = 1
    THEN [fmt |-> fmt \o s, args |-> Append(args, Head(es))]
    ELSE join_impl(fmt \o s \o sep, Append(args, Head(es)), s, sep, Tail(es))

(* join!($sep, $($e),+): the i-th expression is the i-th item *)
join_macro(sep, items, r) ==
    LET a == join_impl(<<>>, <<>>, <<"{", "}">>, sep, [i \in 1..Len(items) |-> <<"e", Digits[i]>>])
    IN  exec(format_args(a.fmt, a.args, <<>>), r,
             [x \in {<<"e", Digits[i]>> : i \in 1..Len(items)} |->
                 items[CHOOSE i \in 1..Len(items) : x = <<"e", Digits[i]>>]])

InitJoin ==
    /\ wrap = "none"
    /\ calls = <<>>
    /\ \E faulty \in BOOLEAN :
         \E left \in (IF faulty THEN 0..MaxQuota ELSE {0}) :
            sink = NewSink(faulty, left)
    /\ res = "none"
    /\ tmpl = <<>>
    /\ \E sep \in JoinSeps, items \in StrUpTo(JoinItems, MaxJoinItems) :
          env = [sep |-> sep, items |-> items]

JoinFn ==
    /\ res = "none"
    /\ LET r == join(env.sep, env.items, Started(sink))
       IN  /\ sink' = r.k
           /\ calls' = r.h
           /\ res' = IF r.ok THEN "Ok" ELSE "Err"
    /\ wrap' = "join"
    /\ UNCHANGED <<tmpl, env>>

JoinMacro ==
    /\ res = "none"
    /\ env.items # <<>>
    /\ LET r == join_macro(env.sep, env.items, Started(sink))
       IN  /\ sink' = r.k
           /\ calls' = r.h
           /\ res' = IF r.ok THEN "Ok" ELSE "Err"
    /\ wrap' = "join!"
    /\ UNCHANGED <<tmpl, env>>

NextJoin == JoinFn \/ JoinMacro

SpecJoin == InitJoin /\ [][NextJoin]_vars

(* the items in order with sep between every two consecutive ones *)
RECURSIVE Joined(_, _)
Joined(sep, items) ==
    IF items = <<>> THEN <<>>
    ELSE IF Len(items) = 1 THEN items[1]
    ELSE Head(items) \o sep \o Joined(sep, Tail(items))

\* C18: join(sep, items) writes the items in iteration order with sep
\* between every two consecutive items and never before the first or after
\* the last; an empty collection writes nothing and an empty sep writes
\* the items back to back.
C18_JoinSeparates ==
    (res = "Ok" /\ wrap \in {"join", "join!"}) =>
        /\ sink.buf = Joined(env.sep, env.items)
        /\ (env.items = <<>> => sink.writes = <<>>)
        /\ (env.sep = <<>> => sink.buf = Flatten(env.items))
        /\ (wrap = "join" /\ env.sep # <<>> /\ env.items # <<>>) =>
              /\ Len(sink.writes) = 2 * Len(env.items) - 1
              /\ \A i \in 1..Len(sink.writes) :
                    sink.writes[i] = IF i % 2 = 1 THEN env.items[(i + 1) \div 2] ELSE env.sep

C18_Witness ==
    /\ res = "Ok"
    /\ wrap = "join"
    /\ env = [sep |-> <<"-", "-">>, items |-> <<<<"1">>, <<"2", "3">>, <<"1">>>>]
    /\ sink.buf = <<"1", "-", "-", "2", "3", "-", "-", "1">>

C18_WitnessEmptySep ==
    /\ res = "Ok"
    /\ wrap = "join"
    /\ env = [sep |-> <<>>, items |-> <<<<"1">>, <<"2", "3">>>>]
    /\ sink.buf = <<"1", "2", "3">>

C18_WitnessEmpty ==
    /\ res = "Ok"
    /\ wrap = "join"
    /\ env.items = <<>>
    /\ env.sep = <<",">>
    /\ sink.writes = <<>>
----------------------------------------------------------------------------
(* xml_impl.rs: xml! collects the pieces of one format string and the      *)
(* arguments of format_args!.  An argument is an expression of the         *)
(* environment or the closure of a bracket list.                           *)
(* a = [ok, fmt: the concat!'d pieces, args]                               *)

\* entries of a bracket list
MaxListItems == 2

ExprArg(e)     == [k |-> "expr", e |-> e, items |-> <<>>]
ListArg(items) == [k |-> "list", e |-> <<>>, items |-> items]

xml_error == [ok |-> FALSE, fmt |-> <<>>, args |-> <<>>]

(* `[$($text:literal : $cond:expr),* $(,)?]`: the entries of the list, or  *)
(* an error when the tokens are no such list                               *)
RECURSIVE list_entries(_, _)
list_entries(acc, tt) ==
    IF tt = <<>> \/ (acc = <<>> /\ tt = <<P(",")>>) THEN [ok |-> TRUE, items |-> acc]
    ELSE IF IsLit(tt, 1) /\ IsP(tt, 2, ":") /\ IsId(tt, 3) /\ tt[3].s \in Idents
            /\ (Len(tt) = 3 \/ IsP(tt, 4, ","))
    THEN list_entries(Append(acc, [text |-> tt[1].s, cond |-> tt[3].s]), Drop(tt, 4))
    ELSE [ok |-> FALSE, items |-> <<>>]

(* `FnFmt(|f| { $(if $cond { f.write_str(concat!($text, " "))? })* Ok(()) })` *)
list_closure_noSpace(items) ==
    [i \in 1..Len(items) |->
        IfStmt(<<[kw |-> "if", c |-> items[i].cond,
                  body |-> <<WriteStrStmt(items[i].text)>>]>>, FALSE, <<>>)]

list_closure(items) ==
    [i \in 1..Len(items) |->
        IfStmt(<<[kw |-> "if", c |-> items[i].cond,
                  body |-> <<WriteStrStmt(items[i].text \o <<" ">>)>>]>>, FALSE, <<>>)]

RECURSIVE xml_tag1(_, _, _)
RECURSIVE xml_ident1(_, _, _, _)
RECURSIVE xml_ident2(_, _, _, _)
RECURSIVE xml_attrs1(_, _, _, _)
RECURSIVE xml_attrs2(_, _, _, _)

(* _format_tag2_!, _format_tag3_! *)
xml_tag2(q, fmt, args, tt) ==
    IF q # <<>> THEN xml_error
    ELSE IF IsP(tt, 1, ">") THEN xml_tag1(fmt \o <<">">>, args, Drop(tt, 1))
    ELSE IF IsP(tt, 1, "/") /\ IsP(tt, 2, ">")
    THEN xml_tag1(fmt \o <<" ", "/", ">">>, args, Drop(tt, 2))
    ELSE xml_error

xml_tag3(q, fmt, args, tt) ==
    IF q # <<>> THEN xml_error
    ELSE IF IsP(tt, 1, ">") THEN xml_tag1(fmt \o <<">">>, args, Drop(tt, 1))
    ELSE xml_error

(* `$crate::$next!($($q!)*; concat!(..), args; tail)` *)
xml_next(q, fmt, args, tt) ==
    IF q = <<>> THEN xml_error
    ELSE CASE Head(q) = "_format_attrs1_" -> xml_attrs1(Tail(q), fmt, args, tt)
           [] Head(q) = "_format_attrs2_" -> xml_attrs2(Tail(q), fmt, args, tt)
           [] Head(q) = "_format_tag2_"   -> xml_tag2(Tail(q), fmt, args, tt)
           [] Head(q) = "_format_tag3_"   -> xml_tag3(Tail(q), fmt, args, tt)
           [] OTHER                       -> xml_error

(* _format_ident1_! *)
xml_ident1(q, fmt, args, tt) ==
    IF q = <<>> THEN xml_error
    ELSE IF IsId(tt, 1) /\ IsP(tt, 2, ":")
    THEN xml_ident2(q, fmt \o tt[1].s \o <<":">>, args, Drop(tt, 2))
    ELSE IF IsId(tt, 1) /\ IsP(tt, 2, "-")
    THEN xml_ident2(q, fmt \o tt[1].s \o <<"-">>, args, Drop(tt, 2))
    ELSE IF IsId(tt, 1)
    THEN xml_next(q, fmt \o tt[1].s, args, Drop(tt, 1))
    ELSE xml_error

(* _format_ident2_! *)
xml_ident2(q, fmt, args, tt) ==
    IF q = <<>> THEN xml_error
    ELSE IF IsId(tt, 1) /\ IsP(tt, 2, "-")
    THEN xml_ident2(q, fmt \o tt[1].s \o <<"-">>, args, Drop(tt, 2))
    ELSE IF IsId(tt, 1)
    THEN xml_next(q, fmt \o tt[1].s, args, Drop(tt, 1))
    ELSE xml_error

(* _format_attrs1_! *)
xml_attrs1(q, fmt, args, tt) ==
    IF q = <<>> THEN xml_error
    ELSE IF IsId(tt, 1)
    THEN xml_ident1(<<"_format_attrs2_">> \o q, fmt \o <<" ">>, args, tt)
    ELSE xml_next(q, fmt, args, tt)

(* _format_attrs2_!: a literal, `{e}`, a bracket list, or no value.  (The  *)
(* rules for `{e;spec}`, a parenthesized template, escape! and a closure   *)
(* start with tokens no template of the model has after `=`.)              *)
xml_attrs2(q, fmt, args, tt) ==
    IF q = <<>> THEN xml_error
    ELSE IF IsP(tt, 1, "=") /\ IsLit(tt, 2)
    THEN xml_attrs1(q, fmt \o <<"=", QUOT>> \o tt[2].s \o <<QUOT>>, args, Drop(tt, 2))
    ELSE IF IsP(tt, 1, "=") /\ IsGrp(tt, 2, "{") /\ IsExpr(tt[2].ts, Idents)
    THEN xml_attrs1(q, fmt \o <<"=", QUOT, "{", "}", QUOT>>,
                    Append(args, ExprArg(tt[2].ts[1].s)), Drop(tt, 2))
    ELSE IF IsP(tt, 1, "=") /\ IsGrp(tt, 2, "[") /\ list_entries(<<>>, tt[2].ts).ok
    THEN xml_attrs1(q, fmt \o <<"=", QUOT, "{", "}", QUOT>>,
                    Append(args, ListArg(list_entries(<<>>, tt[2].ts).items)), Drop(tt, 2))
    ELSE xml_attrs1(q, fmt, args, tt)

(* _format_tag1_!: close tag, open tag, text, `{e}` and the end of the     *)
(* template.  (The other rules start with `<?`, `<!`, escape!, `|` or a    *)
(* keyword, which no template of the model has.)                           *)
xml_tag1(fmt, args, tt) ==
    IF IsP(tt, 1, "<") /\ IsP(tt, 2, "/")
    THEN xml_ident1(<<"_format_tag3_">>, fmt \o <<"<", "/">>, args, Drop(tt, 2))
    ELSE IF IsP(tt, 1, "<")
    THEN xml_ident1(<<"_format_attrs1_", "_format_tag2_">>, fmt \o <<"<">>, args, Drop(tt, 1))
    ELSE IF IsLit(tt, 1)
    THEN xml_tag1(fmt \o tt[1].s, args, Drop(tt, 1))
    ELSE IF IsGrp(tt, 1, "{") /\ IsExpr(tt[1].ts, Idents)
    THEN xml_tag1(fmt \o <<"{", "}">>, Append(args, ExprArg(tt[1].ts[1].s)), Drop(tt, 1))
    ELSE IF tt = <<>>
    THEN [ok |-> TRUE, fmt |-> fmt, args |-> args]
    ELSE xml_error

(* xml!{ template }: format_args! over the pieces; a `{}` of an expression *)
(* displays it, a `{}` of a closure runs the closure on the formatter      *)
xml(tt) ==
    LET a    == xml_tag1(<<>>, <<>>, tt)
        prog == format_args(a.fmt, a.args, <<>>)
    IN  IF ~a.ok THEN <<CompileError>>
        ELSE [i \in 1..Len(prog) |->
                IF prog[i].op # "fmt" THEN prog[i]
                ELSE IF prog[i].e.k = "list"
                THEN BodyStmt("none", <<>>, list_closure(prog[i].e.items))
                ELSE FmtStmt("none", prog[i].e.e, <<>>)]
----------------------------------------------------------------------------
(* xml!{ <div x={v} class=[ "lit": cond, ... ] > }: one open tag whose     *)
(* attribute value is a bracket list.                                      *)

ListTexts == {<<"k">>, <<"b", "<">>}
ListConds == {CondVar(1), CondVar(2)}
ListItems == UNION {[1..n -> [text : ListTexts, cond : ListConds]] : n \in 0..MaxListItems}

(* t = [pre: an attribute `x={v}` comes first, items, comma: a trailing     *)
(*      comma, sc: the tag ends with `/>`, bad: what is wrong with the list] *)
ListTemplates ==
    [pre : BOOLEAN, items : ListItems, comma : BOOLEAN, sc : BOOLEAN, bad : {"none"}]

(* lists that are no `literal : expr` entries: the first entry has no      *)
(* condition, has an identifier for its text, or is followed by `,,`       *)
BadListTemplates ==
    {t \in [pre : BOOLEAN, items : ListItems, comma : {FALSE}, sc : BOOLEAN,
            bad : {"nocond", "ident", "commas"}] : t.items # <<>>}

RECURSIVE EntryTokens(_, _)
EntryTokens(items, bad) ==
    IF items = <<>> THEN <<>>
    ELSE (CASE bad = "nocond" -> <<Lit(Head(items).text)>>
            [] bad = "ident"  -> <<Id(<<"a">>), P(":"), Id(Head(items).cond)>>
            [] bad = "commas" -> <<Lit(Head(items).text), P(":"), Id(Head(items).cond), P(",")>>
            [] OTHER          -> <<Lit(Head(items).text), P(":"), Id(Head(items).cond)>>)
         \o (IF Len(items) > 1 \/ bad = "commas" THEN <<P(",")>> ELSE <<>>)
         \o EntryTokens(Tail(items), "none")

ListTokens(t) ==
    <<P("<"), Id(<<"d", "i", "v">>)>>
    \o (IF t.pre THEN <<Id(<<"x">>), P("="), Grp("{", <<Id(<<"v">>)>>)>> ELSE <<>>)
    \o <<Id(<<"c", "l", "a", "s", "s">>), P("="),
         Grp("[", EntryTokens(t.items, t.bad) \o (IF t.comma THEN <<P(",")>> ELSE <<>>))>>
    \o (IF t.sc THEN <<P("/"), P(">")>> ELSE <<P(">")>>)

xml_program(t) == xml(ListTokens(t))

InitXmlList ==
    /\ wrap = "none"
    /\ calls = <<>>
    /\ sink = NewSink(FALSE, 0)
    /\ res = "none"
    /\ tmpl \in ListTemplates \cup BadListTemplates
    /\ \E val \in Values, g \in [ListConds -> BOOLEAN] :
          env = [x \in Vars \cup ListConds |-> IF x \in Vars THEN val ELSE g[x]]

RenderXml ==
    /\ res = "none"
    /\ Compiles(xml_program(tmpl))
    /\ LET r == exec(xml_program(tmpl), Started(sink), env)
       IN  /\ sink' = r.k
           /\ calls' = r.h
           /\ res' = IF r.ok THEN "Ok" ELSE "Err"
    /\ UNCHANGED <<wrap, tmpl, env>>

RejectXml ==
    /\ res = "none"
    /\ ~Compiles(xml_program(tmpl))
    /\ res' = "CompileError"
    /\ UNCHANGED <<wrap, calls, sink, tmpl, env>>

NextXmlList == RenderXml \/ RejectXml

SpecXmlList == InitXmlList /\ [][NextXmlList]_vars

(* the entries whose condition holds, each with one space after it *)
Emitted(items, en) ==
    SelectSeq([i \in 1..Len(items) |->
                  IF en[items[i].cond] THEN items[i].text \o <<" ">> ELSE <<>>],
              LAMBDA s : s # <<>>)

RefList(t, en) ==
    <<"<", "d", "i", "v">>
    \o (IF t.pre THEN <<" ", "x", "=", QUOT>> \o en[<<"v">>] \o <<QUOT>> ELSE <<>>)
    \o <<" ", "c", "l", "a", "s", "s", "=", QUOT>>
    \o Flatten(Emitted(t.items, en))
    \o <<QUOT>>
    \o (IF t.sc THEN <<" ", "/", ">">> ELSE <<">">>)

ListWrites == {s \o <<" ">> : s \in ListTexts} \cup ListTexts

(* C19: `name=["lit1": c1, "lit2": c2, ...]` renders as `name="`, then in  *)
(* list order each literal whose condition is true with exactly one space  *)
(* after it (also after the last emitted one), then `"`; an entry whose    *)
(* condition is false writes nothing.                                      *)
C19_BracketList ==
    (res # "none" /\ tmpl \in ListTemplates) =>
        /\ res = "Ok"
        /\ sink.buf = RefList(tmpl, env)
        /\ SelectSeq([i \in 1..Len(calls) |-> calls[i].s], LAMBDA s : s \in ListWrites)
              = Emitted(tmpl.items, env)

(* two entries, the first true and the second false: only the first is    *)
(* written, with its space, as in the `class-a` example of the docs        *)
C19_Witness ==
    /\ res = "Ok" /\ tmpl \in ListTemplates
    /\ Len(tmpl.items) = 2 /\ ~tmpl.pre /\ ~tmpl.sc
    /\ tmpl.items[1].cond # tmpl.items[2].cond
    /\ env[tmpl.items[1].cond] /\ ~env[tmpl.items[2].cond]
    /\ sink.buf = <<"<", "d", "i", "v", " ", "c", "l", "a", "s", "s", "=", QUOT>>
                  \o tmpl.items[1].text \o <<" ", QUOT, ">">>

(* both entries true: the last emitted literal has its space too *)
C19_WitnessBoth ==
    /\ res = "Ok" /\ tmpl \in ListTemplates
    /\ Len(tmpl.items) = 2 /\ tmpl.pre
    /\ env[tmpl.items[1].cond] /\ env[tmpl.items[2].cond]
    /\ tmpl.items[1].text # tmpl.items[2].text
    /\ Len(Emitted(tmpl.items, env)) = 2
    /\ sink.buf = RefList(tmpl, env)

(* no condition holds: the value is empty *)
C19_WitnessNone ==
    /\ res = "Ok" /\ tmpl \in ListTemplates
    /\ tmpl.items # <<>>
    /\ Emitted(tmpl.items, env) = <<>>
    /\ sink.buf = RefList(tmpl, env)
----------------------------------------------------------------------------
(* xfmt!{ "[" {e sep spec} "]" } and xfmt!{ <a k={e sep spec}> }: one      *)
(* interpolation with a format spec, as text and as attribute value.       *)

MaxInt == 255
IntValues == {0, 7, 42, MaxInt}

IntSpecs ==
    { <<>>,
      <<P("#"), Id(<<"x">>), P("?")>>,
      <<Id(<<"x">>)>>,
      <<Id(<<"X">>)>>,
      <<P("#"), Id(<<"b">>)>>,
      <<Id(<<"o">>)>>,
      <<P("?")>>,
      <<Num(<<"0", "4">>)>>,
      <<Num(<<"4">>)>>,
      <<P("<"), Num(<<"4">>)>>,
      <<P("^"), Num(<<"4">>)>>,
      <<P("#"), Num(<<"0", "6", "x">>)>>,
      <<P(":"), P(">"), Num(<<"4">>)>>,
      <<P("*"), P("^"), Num(<<"5">>)>> }

StrSpecs ==
    { <<>>,
      <<P(">"), Num(<<"3">>)>>,
      <<P("-"), P("<"), Num(<<"3">>)>>,
      <<P("^"), Num(<<"4">>)>>,
      <<P("."), Num(<<"1">>)>>,
      <<Num(<<"2">>), P("."), Num(<<"1">>)>>,
      <<P("?")>> }

(* specs format_args! rejects: no such trait, or not implemented for &str *)
BadIntSpecs == { <<Id(<<"q">>)>>, <<Id(<<"x", "x">>)>> }
BadStrSpecs == { <<Id(<<"q">>)>>, <<Id(<<"x">>)>> }

FormatSeps == {":", ";"}
Places      == {"text", "attr"}

(* t = [var, sep ("none": no separator), spec: the tokens after the        *)
(*      separator, place, bad]                                             *)
FormatTemplates ==
    {t \in [var : {<<"n">>}, sep : FormatSeps \cup {"none"}, spec : IntSpecs,
            place : Places, bad : {"none"}] : t.sep = "none" => t.spec = <<>>}
    \cup
    {t \in [var : {<<"v">>}, sep : FormatSeps \cup {"none"}, spec : StrSpecs,
            place : Places, bad : {"none"}] : t.sep = "none" => t.spec = <<>>}

(* a spec that is rejected, no expression before the separator, or `::`    *)
(* (one token, which is neither `:` nor `;`) where the separator should be *)
BadFormatTemplates ==
    [var : {<<"n">>}, sep : FormatSeps, spec : BadIntSpecs, place : Places, bad : {"spec"}]
    \cup
    [var : {<<"v">>}, sep : FormatSeps, spec : BadStrSpecs, place : Places, bad : {"spec"}]
    \cup
    [var : {<<"n">>}, sep : FormatSeps, spec : {<<Id(<<"x">>)>>}, place : Places, bad : {"noexpr"}]
    \cup
    [var : {<<"n">>}, sep : {"::"}, spec : {<<P(">"), Num(<<"4">>)>>}, place : Places, bad : {"pathsep"}]

InterpTokens(t) ==
    (IF t.bad = "noexpr" THEN <<>> ELSE <<Id(t.var)>>)
    \o (IF t.sep = "none" THEN <<>> ELSE <<P(t.sep)>> \o t.spec)

FormatTokens(t) ==
    IF t.place = "text"
    THEN <<Lit(<<"[">>), Grp("{", InterpTokens(t)), Lit(<<"]">>)>>
    ELSE <<P("<"), Id(<<"a">>), Id(<<"k">>), P("="), Grp("{", InterpTokens(t)), P(">")>>

format_program(t) == xfmt(<<>>, FormatTokens(t))

InitFormat ==
    /\ wrap = "none"
    /\ calls = <<>>
    /\ sink = NewSink(FALSE, 0)
    /\ res = "none"
    /\ tmpl \in FormatTemplates \cup BadFormatTemplates
    /\ \E val \in Values, n \in IntValues :
          env = [x \in Vars \cup IntVars |-> IF x \in Vars THEN val ELSE n]

RenderFormat ==
    /\ res = "none"
    /\ Compiles(format_program(tmpl))
    /\ LET r == exec(format_program(tmpl), Started(sink), env)
       IN  /\ sink' = r.k
           /\ calls' = r.h
           /\ res' = IF r.ok THEN "Ok" ELSE "Err"
    /\ UNCHANGED <<wrap, tmpl, env>>

RejectFormat ==
    /\ res = "none"
    /\ ~Compiles(format_program(tmpl))
    /\ res' = "CompileError"
    /\ UNCHANGED <<wrap, calls, sink, tmpl, env>>

NextFormat == RenderFormat \/ RejectFormat

SpecFormat == InitFormat /\ [][NextFormat]_vars

(* the text between the braces of the format string: nothing without a    *)
(* separator, else `:` and the spec as written, whichever the separator   *)
SpecText(t) ==
    IF t.sep = "none" THEN <<>> ELSE <<":">> \o Flatten([i \in 1..Len(t.spec) |-> t.spec[i].s])

RefFormat(t, en) ==
    LET val == Format(t.var, en[t.var], SpecText(t))
    IN  IF t.place = "text"
        THEN <<"[">> \o ReplaceEach(val, TextRule) \o <<"]">>
        ELSE <<"<", "a", " ", "k", "=", QUOT>> \o ReplaceEach(val, AttrRule) \o <<QUOT, ">">>

OtherSep(t) ==
    [t EXCEPT !.sep = IF t.sep = ":" THEN ";" ELSE IF t.sep = ";" THEN ":" ELSE t.sep]

ValuesOf(h) == SelectSeq(h, LAMBDA c : c.esc # "none")

(* C20: in an xfmt! interpolation the expression is the tokens before the  *)
(* first `;` or `:` and the tokens after it are the format spec; `{v;spec}`*)
(* and `{v:spec}` expand to the same statements and render identically;    *)
(* without a separator the value is formatted with the default `{}`.       *)
C20_FormatSpec ==
    (res # "none" /\ tmpl \in FormatTemplates) =>
        /\ res = "Ok"
        /\ sink.buf = RefFormat(tmpl, env)
        /\ format_program(OtherSep(tmpl)) = format_program(tmpl)
        /\ sink.buf = exec(format_program(OtherSep(tmpl)), Started(NewSink(FALSE, 0)), env).k.buf
        /\ \E i \in 1..Len(format_program(tmpl)) :
              /\ format_program(tmpl)[i].op = "fmt"
              /\ format_program(tmpl)[i].e = tmpl.var
              /\ format_program(tmpl)[i].spec = SpecText(tmpl)
        /\ tmpl.sep = "none" =>
              /\ Len(ValuesOf(calls)) = 1
              /\ ValuesOf(calls)[1].s = (IF tmpl.var \in IntVars
                                         THEN to_radix(env[tmpl.var], 10, DecDigits)
                                         ELSE env[tmpl.var])

(* `{n:#x?}` of 42 is `0x2a`, as in the example of the docs *)
C20_Witness ==
    /\ res = "Ok" /\ tmpl \in FormatTemplates
    /\ tmpl.var = <<"n">> /\ env[<<"n">>] = 42 /\ tmpl.sep = ":" /\ tmpl.place = "text"
    /\ tmpl.spec = <<P("#"), Id(<<"x">>), P("?")>>
    /\ sink.buf = <<"[", "0", "x", "2", "a", "]">>

(* `{n;#x?}` of 42 is `0x2a` too *)
C20_WitnessSemicolon ==
    /\ res = "Ok" /\ tmpl \in FormatTemplates
    /\ tmpl.var = <<"n">> /\ env[<<"n">>] = 42 /\ tmpl.sep = ";" /\ tmpl.place = "text"
    /\ tmpl.spec = <<P("#"), Id(<<"x">>), P("?")>>
    /\ sink.buf = <<"[", "0", "x", "2", "a", "]">>

(* `{n}` of 42 is `42` *)
C20_WitnessDefault ==
    /\ res = "Ok" /\ tmpl \in FormatTemplates
    /\ tmpl.var = <<"n">> /\ env[<<"n">>] = 42 /\ tmpl.sep = "none" /\ tmpl.place = "attr"
    /\ sink.buf = <<"<", "a", " ", "k", "=", QUOT, "4", "2", QUOT, ">">>

(* only the first separator separates: `{n; :>4}` fills with `:` *)
C20_WitnessSecondColon ==
    /\ res = "Ok" /\ tmpl \in FormatTemplates
    /\ tmpl.var = <<"n">> /\ env[<<"n">>] = 7 /\ tmpl.sep = ";" /\ tmpl.place = "text"
    /\ tmpl.spec = <<P(":"), P(">"), Num(<<"4">>)>>
    /\ sink.buf = <<"[", ":", ":", ":", "7", "]">>

(* the formatted text is escaped: `{v:?}` of `"&>` as text *)
C20_WitnessEscaped ==
    /\ res = "Ok" /\ tmpl \in FormatTemplates
    /\ tmpl.var = <<"v">> /\ env[<<"v">>] = <<QUOT, "&", ">">> /\ tmpl.place = "text"
    /\ tmpl.spec = <<P("?")>>
    /\ sink.buf = <<"[", QUOT, "\\", QUOT, "&", "a", "m", "p", ";", "&", "g", "t", ";", QUOT, "]">>
----------------------------------------------------------------------------
(* xfmt!{ <name attrs TERM "z" }, <!name ..., <?name ...: one tag opened   *)
(* by `<`, `<!` or `<?`, and what stands where its terminator should be.   *)

Leads == {"<", "<!", "<?"}

(* the terminators, and tokens that are none: a literal, `=`, `?`, `/`,    *)
(* `<`, a braced group, or the end of the input                            *)
Terms == {">", "/>", "?>", "lit", "=", "?", "/", "<", "group", "eoi"}

TermAttrs ==
    {<<>>}
    \cup {<<a>> : a \in [key : {<<"x">>}, v : {"none"}, s : {<<>>}]
                        \cup [key : {<<"x">>}, v : {"lit"}, s : TagAttrLits]
                        \cup [key : {<<"x">>}, v : {"interp"}, s : Vars]}

(* t = [lead, attrs, term, post: text follows the terminator] *)
TermTemplates ==
    {t \in [lead : Leads, attrs : TermAttrs, term : Terms, post : BOOLEAN] :
        t.term = "eoi" => ~t.post}

LeadTokens(l) ==
    CASE l = "<"  -> <<P("<")>>
      [] l = "<!" -> <<P("<"), P("!")>>
      [] OTHER    -> <<P("<"), P("?")>>

TermTokens(x) ==
    CASE x = ">"     -> <<P(">")>>
      [] x = "/>"    -> <<P("/"), P(">")>>
      [] x = "?>"    -> <<P("?"), P(">")>>
      [] x = "lit"   -> <<Lit(<<"z">>), P(">")>>
      [] x = "="     -> <<P("="), P(">")>>
      [] x = "?"     -> <<P("?")>>
      [] x = "/"     -> <<P("/")>>
      [] x = "<"     -> <<P("<"), Id(<<"b">>), P(">")>>
      [] x = "group" -> <<Grp("{", <<Id(<<"v">>)>>), P(">")>>
      [] OTHER       -> <<>>

TermTemplateTokens(t) ==
    LeadTokens(t.lead) \o <<Id(<<"n">>)>> \o AttrsTokens(t.attrs) \o TermTokens(t.term)
    \o (IF t.post THEN <<Lit(<<"z">>)>> ELSE <<>>)

term_program(t) == xfmt(<<>>, TermTemplateTokens(t))

InitTerm ==
    /\ wrap = "none"
    /\ calls = <<>>
    /\ sink = NewSink(FALSE, 0)
    /\ res = "none"
    /\ tmpl \in TermTemplates
    /\ env \in [Vars -> Values]

RenderTerm ==
    /\ res = "none"
    /\ Compiles(term_program(tmpl))
    /\ LET r == exec(term_program(tmpl), Started(sink), env)
       IN  /\ sink' = r.k
           /\ calls' = r.h
           /\ res' = IF r.ok THEN "Ok" ELSE "Err"
    /\ UNCHANGED <<wrap, tmpl, env>>

RejectTerm ==
    /\ res = "none"
    /\ ~Compiles(term_program(tmpl))
    /\ res' = "CompileError"
    /\ UNCHANGED <<wrap, calls, sink, tmpl, env>>

NextTerm == RenderTerm \/ RejectTerm

SpecTerm == InitTerm /\ [][NextTerm]_vars

(* the terminators of a tag opened by `l` *)
Terminators(l) == IF l = "<?" THEN {"?>"} ELSE {">", "/>"}

RefTerm(t, en) ==
    Flatten([i \in 1..Len(LeadTokens(t.lead)) |-> LeadTokens(t.lead)[i].s])
    \o <<"n">> \o RefAttrs(t.attrs, en)
    \o (CASE t.term = ">" -> <<">">> [] t.term = "/>" -> <<" ", "/", ">">> [] OTHER -> <<"?", ">">>)
    \o (IF t.post THEN <<"z">> ELSE <<>>)

(* C21: after the name and the attributes `<name` and `<!name` must be     *)
(* terminated by `>` or `/>` and `<?name` by `?>`; any other next token,   *)
(* and the end of the input, is a compile-time error.                      *)
C21_TagTerminator ==
    res # "none" =>
        /\ (res = "Ok") = (tmpl.term \in Terminators(tmpl.lead))
        /\ (res # "Ok") = (res = "CompileError" /\ sink.buf = <<>> /\ calls = <<>>)
        /\ res = "Ok" => sink.buf = RefTerm(tmpl, env)

(* `<?n x="..." >` is rejected: `>` does not terminate a declaration *)
C21_Witness ==
    /\ res = "CompileError"
    /\ tmpl.lead = "<?" /\ tmpl.term = ">" /\ tmpl.attrs # <<>>

(* `<!n />` is accepted *)
C21_WitnessDoctype ==
    /\ res = "Ok"
    /\ tmpl.lead = "<!" /\ tmpl.term = "/>" /\ tmpl.attrs = <<>> /\ ~tmpl.post
    /\ sink.buf = <<"<", "!", "n", " ", "/", ">">>

(* `<n` cut off by the end of the input is rejected *)
C21_WitnessEoi ==
    /\ res = "CompileError"
    /\ tmpl.lead = "<" /\ tmpl.term = "eoi"

(* `<?n ?>` is accepted *)
C21_WitnessDecl ==
    /\ res = "Ok"
    /\ tmpl.lead = "<?" /\ tmpl.term = "?>" /\ tmpl.post
    /\ sink.buf = <<"<", "?", "n">> \o RefAttrs(tmpl.attrs, env) \o <<"?", ">", "z">>
----------------------------------------------------------------------------
(* xfmt!{ <t NAME [= value] [y] > }: one attribute whose name is written   *)
(* as fragments or as a string literal, with and without a value.          *)

AttrValues == {"none", "lit", "interp"}

(* t = [nm, v: the kind of value, more: another attribute follows,         *)
(*      sc: the tag ends with `/>`]                                        *)
AttrTemplates ==
    [nm : {nm \in Names : ColonFirstOnly(nm)}, v : AttrValues, more : BOOLEAN, sc : BOOLEAN]

AttrTemplateTokens(t) ==
    <<P("<"), Id(<<"t">>)>> \o NameTokens(t.nm)
    \o (CASE t.v = "lit"    -> <<P("="), Lit(<<"0">>)>>
          [] t.v = "interp" -> <<P("="), Grp("{", <<Id(<<"v">>)>>)>>
          [] OTHER          -> <<>>)
    \o (IF t.more THEN <<Id(<<"y">>)>> ELSE <<>>)
    \o (IF t.sc THEN <<P("/"), P(">")>> ELSE <<P(">")>>)

attrs_program(t) == xfmt(<<>>, AttrTemplateTokens(t))

InitAttrs ==
    /\ wrap = "none"
    /\ calls = <<>>
    /\ sink = NewSink(FALSE, 0)
    /\ res = "none"
    /\ tmpl \in AttrTemplates
    /\ env \in [Vars -> Values]

RenderAttrs ==
    /\ res = "none"
    /\ Compiles(attrs_program(tmpl))
    /\ LET r == exec(attrs_program(tmpl), Started(sink), env)
       IN  /\ sink' = r.k
           /\ calls' = r.h
           /\ res' = IF r.ok THEN "Ok" ELSE "Err"
    /\ UNCHANGED <<wrap, tmpl, env>>

RejectAttrs ==
    /\ res = "none"
    /\ ~Compiles(attrs_program(tmpl))
    /\ res' = "CompileError"
    /\ UNCHANGED <<wrap, calls, sink, tmpl, env>>

NextAttrs == RenderAttrs \/ RejectAttrs

SpecAttrs == InitAttrs /\ [][NextAttrs]_vars

RefAttrTemplate(t, en) ==
    <<"<", "t", " ">> \o NameText(t.nm)
    \o (CASE t.v = "lit"    -> <<"=", QUOT, "0", QUOT>>
          [] t.v = "interp" -> <<"=", QUOT>> \o ReplaceEach(en[<<"v">>], AttrRule) \o <<QUOT>>
          [] OTHER          -> <<>>)
    \o (IF t.more THEN <<" ", "y">> ELSE <<>>)
    \o (IF t.sc THEN <<" ", "/", ">">> ELSE <<">">>)

(* C22: every attribute, its name written as identifier fragments or as a  *)
(* string literal, may appear without `= value`; a value-less attribute is *)
(* accepted and rendered as one space followed by the name.                *)
C22_ValuelessAttribute ==
    (res # "none" /\ tmpl.v = "none") =>
        /\ res = "Ok"
        /\ sink.buf = RefAttrTemplate(tmpl, env)

(* `<t "a-0">`: the literal name without a value is rejected *)
C22_Witness ==
    /\ res = "CompileError"
    /\ tmpl.nm.lit /\ tmpl.v = "none" /\ ~tmpl.more /\ ~tmpl.sc
    /\ sink.buf = <<>>

(* `<t a-b>`: the same attribute written as fragments is accepted *)
C22_WitnessFragments ==
    /\ res = "Ok"
    /\ ~tmpl.nm.lit /\ tmpl.nm.seps = <<"-">> /\ tmpl.v = "none" /\ ~tmpl.more /\ ~tmpl.sc
    /\ sink.buf = <<"<", "t", " ", "a", "-", "b", ">">>

(* what the rules of __xfmt_attrs! do: only a value-less literal name is   *)
(* rejected                                                                *)
C22_LiteralNeedsValue ==
    res # "none" =>
        IF tmpl.nm.lit /\ tmpl.v = "none"
        THEN res = "CompileError" /\ sink.buf = <<>>
        ELSE res = "Ok" /\ sink.buf = RefAttrTemplate(tmpl, env)
-----------------------------------------------------------------------------
(* The literal accumulator of xfmt!: `concat(..)` carried from rule to     *)
(* rule and handed to __write_str!.                                        *)

MaxAccNodes == 3

(* text nodes: a literal, the empty literal, a tag; dynamic nodes: an      *)
(* interpolation, an escape hatch, if, match, for, a comment, a CDATA      *)
(* section; and a parenthesized group `( "g" )` or `( {v} "g" )`           *)
TextKinds == {"lit", "empty", "tag"}
DynKinds  == {"interp", "closure", "if", "match", "for", "comment", "cdata"}
GroupKinds == {"group", "groupv"}

AccTemplates == StrUpTo(TextKinds \cup DynKinds \cup GroupKinds, MaxAccNodes) \ {<<>>}

(* a comment that is not closed ends a template no rule accepts *)
BadAccTemplates ==
    {Append(t, "unclosed") : t \in StrUpTo(TextKinds \cup DynKinds \cup GroupKinds, 1)}

AccGroup(n) == IF n = "group" THEN <<"glit">> ELSE <<"interp", "glit">>

RECURSIVE AccTokens(_)
AccNodeTokens(n) ==
    CASE n = "lit"     -> <<Lit(<<"a">>)>>
      [] n = "glit"    -> <<Lit(<<"g">>)>>
      [] n = "empty"   -> <<Lit(<<>>)>>
      [] n = "tag"     -> <<P("<"), Id(<<"b">>), P(">")>>
      [] n = "interp"  -> <<Grp("{", <<Id(<<"v">>)>>)>>
      [] n = "closure" ->
            <<P("|"), Id(<<"f">>), P("|"),
              Grp("{", <<Id(<<"f">>), P("."),
                         Id(<<"w", "r", "i", "t", "e", "_", "s", "t", "r">>),
                         Grp("(", <<Lit(<<"w">>)>>), P("?"), P(";")>>)>>
      [] n = "if"      -> <<Kw(KwIf), Grp("(", <<Id(<<"c", "1">>)>>),
                            Grp("{", <<Lit(<<"i">>)>>)>>
      [] n = "match"   -> <<Kw(KwMatch), Grp("(", <<Id(<<"c", "1">>)>>),
                            Grp("{", <<Id(<<"t", "r", "u", "e">>), P("=>"),
                                       Grp("{", <<Lit(<<"m">>)>>), P(","),
                                       Id(<<"_">>), P("=>"), Lit(<<"n">>)>>)>>
      [] n = "for"     -> <<Kw(KwFor), Id(<<"i">>), Kw(KwIn),
                            Grp("(", <<Id(<<"x", "s">>)>>),
                            Grp("{", <<Lit(<<"l">>)>>)>>
      [] n = "comment" -> <<P("<"), P("!"), P("-"), P("-"), Lit(<<"c">>),
                            P("-"), P("->")>>
      [] n = "cdata"   -> <<P("<"), P("!"),
                            Grp("[", <<Id(<<"C", "D", "A", "T", "A">>),
                                       Grp("[", <<Lit(<<"d">>)>>)>>), P(">")>>
      [] n = "unclosed" -> <<P("<"), P("!"), P("-"), P("-"), Lit(<<"c">>)>>
      [] OTHER         -> <<Grp("(", AccTokens(AccGroup(n)))>>

AccTokens(t) ==
    IF t = <<>> THEN <<>> ELSE AccNodeTokens(Head(t)) \o AccTokens(Tail(t))

acc_program(t) == xfmt(<<>>, AccTokens(t))

InitAcc ==
    /\ wrap = "none"
    /\ calls = <<>>
    /\ sink = NewSink(FALSE, 0)
    /\ res = "none"
    /\ tmpl \in AccTemplates \cup BadAccTemplates
    /\ \E val \in {<<"a">>, <<"<", APOS>>}, c \in BOOLEAN, xs \in {<<>>, <<<<"1">>, <<"2">>>>} :
          env = [x \in Vars \cup {<<"c", "1">>} \cup IterVars |->
                   IF x \in Vars THEN val ELSE IF x \in IterVars THEN xs ELSE c]

RenderAcc ==
    /\ res = "none"
    /\ Compiles(acc_program(tmpl))
    /\ LET r == exec(acc_program(tmpl), Started(sink), env)
       IN  /\ sink' = r.k
           /\ calls' = r.h
           /\ res' = IF r.ok THEN "Ok" ELSE "Err"
    /\ UNCHANGED <<wrap, tmpl, env>>

RejectAcc ==
    /\ res = "none"
    /\ ~Compiles(acc_program(tmpl))
    /\ res' = "CompileError"
    /\ UNCHANGED <<wrap, calls, sink, tmpl, env>>

NextAcc == RenderAcc \/ RejectAcc

SpecAcc == InitAcc /\ [][NextAcc]_vars

(* The expected write_str calls.  acc = [p: something is accumulated,      *)
(* s: its concatenation].  mode "group": a parenthesized group ends with   *)
(* a write of the accumulation; mode "dyn": only a dynamic node and the    *)
(* end of the template do; mode "piece": every piece is written on its     *)
(* own.                                                                    *)
NoAcc == [p |-> FALSE, s |-> <<>>]
WriteCall(esc, s) == [esc |-> esc, s |-> s]
Flushed(acc) == IF acc.p THEN <<WriteCall("none", acc.s)>> ELSE <<>>
Pending(acc, s) == [p |-> TRUE, s |-> acc.s \o s]

(* the calls a dynamic node makes itself *)
DynCalls(n, en) ==
    CASE n = "interp"  -> <<WriteCall("Text", en[<<"v">>])>>
      [] n = "closure" -> <<WriteCall("none", <<"w">>)>>
      [] n = "if"      -> IF en[<<"c", "1">>] THEN <<WriteCall("none", <<"i">>)>> ELSE <<>>
      [] n = "match"   -> <<WriteCall("none", IF en[<<"c", "1">>] THEN <<"m">> ELSE <<"n">>)>>
      [] n = "for"     -> [j \in 1..Len(en[<<"x", "s">>]) |-> WriteCall("none", <<"l">>)]
      [] n = "comment" -> <<WriteCall("Comment", <<"c">>)>>
      [] OTHER         -> <<WriteCall("CData", <<"d">>)>>

(* the structural text before and after a node *)
TextBefore(n) ==
    CASE n = "lit"     -> <<"a">>
      [] n = "glit"    -> <<"g">>
      [] n = "tag"     -> <<"<", "b", ">">>
      [] n = "comment" -> <<"<", "!", "-", "-", " ">>
      [] n = "cdata"   -> <<"<", "!", "[", "C", "D", "A", "T", "A", "[">>
      [] OTHER         -> <<>>

TextAfter(n) ==
    CASE n = "comment" -> Pending(NoAcc, <<" ", "-", "-", ">">>)
      [] n = "cdata"   -> Pending(NoAcc, <<"]", "]", ">">>)
      [] OTHER         -> NoAcc

RECURSIVE AccCalls(_, _, _, _)
AccCalls(t, acc, en, mode) ==
    IF t = <<>> THEN [h |-> <<>>, acc |-> acc]
    ELSE LET n == Head(t)
             one ==
               IF n \in TextKinds \cup {"glit"}
               THEN [h |-> <<>>, acc |-> Pending(acc, TextBefore(n))]
               ELSE IF n \in DynKinds
               THEN [h |-> Flushed(IF n \in {"comment", "cdata"}
                                   THEN Pending(acc, TextBefore(n)) ELSE acc)
                           \o DynCalls(n, en),
                     acc |-> TextAfter(n)]
               ELSE LET g == AccCalls(AccGroup(n), acc, en, mode)
                    IN  IF mode = "dyn" THEN g
                        ELSE [h |-> g.h \o Flushed(g.acc), acc |-> NoAcc]
             cut == IF mode = "piece"
                    THEN [h |-> one.h \o Flushed(one.acc), acc |-> NoAcc]
                    ELSE one
             rest == AccCalls(Tail(t), cut.acc, en, mode)
         IN  [h |-> cut.h \o rest.h, acc |-> rest.acc]

RefCalls(t, en, mode) ==
    LET r == AccCalls(t, NoAcc, en, mode) IN r.h \o Flushed(r.acc)

(* what the calls put in a sink that accepts everything *)
Output(h) ==
    Flatten([i \in 1..Len(h) |-> wrap_write_str(h[i].esc, NewSink(FALSE, 0), h[i].s).k.buf])

(* C23 as stated: the accumulated text is written by one write_str         *)
(* immediately before the next dynamic node or at the end of the template  *)
(* and nowhere else, nothing is written for an empty accumulation, and     *)
(* the output is that of writing each piece on its own.                    *)
C23_SingleWrite ==
    res # "none" =>
        /\ (res = "Ok") = (tmpl \in AccTemplates)
        /\ res = "Ok" =>
              /\ calls = RefCalls(tmpl, env, "dyn")
              /\ sink.buf = Output(RefCalls(tmpl, env, "piece"))

(* C23: the accumulated text is written by one write_str immediately       *)
(* before the next dynamic node, at the end of a parenthesized group, or   *)
(* at the end of the template; nothing is written when no text token was   *)
(* accumulated; the output is that of writing each piece on its own.       *)
C23_Accumulation ==
    res # "none" =>
        /\ (res = "Ok") = (tmpl \in AccTemplates)
        /\ res = "Ok" =>
              /\ calls = RefCalls(tmpl, env, "group")
              /\ sink.buf = Output(RefCalls(tmpl, env, "piece"))

(* `"a" ( "g" ) "a"`: the group ends the first write, "ag", "a" *)
C23_Witness ==
    /\ res = "Ok"
    /\ tmpl = <<"lit", "group", "lit">>
    /\ calls = <<WriteCall("none", <<"a", "g">>), WriteCall("none", <<"a">>)>>
    /\ sink.buf = <<"a", "g", "a">>

(* `"a" <b> {v}`: one write of `a<b>` before the interpolation, none after *)
C23_WitnessSingle ==
    /\ res = "Ok"
    /\ tmpl = <<"lit", "tag", "interp">>
    /\ calls = <<WriteCall("none", <<"a", "<", "b", ">">>), WriteCall("Text", env[<<"v">>])>>

(* two dynamic nodes in a row: no write between them *)
C23_WitnessEmpty ==
    /\ res = "Ok"
    /\ tmpl = <<"interp", "if", "interp">>
    /\ ~env[<<"c", "1">>]
    /\ Len(calls) = 2
-----------------------------------------------------------------------------
(* Control flow whose expression is written without parentheses:           *)
(* `if c1 { .. }`, `match c1 { .. }`, `for i in xs { .. }` at any place    *)
(* of a template.                                                          *)

MaxPre == 2

(* t = [pre: the nodes before the control flow, ctl, par: the expression   *)
(* is in parentheses, post: text follows]                                  *)
ParTemplates ==
    [pre : StrUpTo({"lit", "tag", "interp", "comment", "group"}, MaxPre),
     ctl : {"if", "match", "for"}, par : BOOLEAN, post : BOOLEAN]

(* the tokens of the control flow; without parentheses the tokens of the   *)
(* expression stand in place of the group                                  *)
Unparenthesized(tt, i) == Take(tt, i - 1) \o tt[i].ts \o Drop(tt, i)

ParCtlTokens(ctl, par) ==
    IF par THEN AccNodeTokens(ctl)
    ELSE Unparenthesized(AccNodeTokens(ctl), IF ctl = "for" THEN 4 ELSE 2)

ParNodes(t) == t.pre \o <<t.ctl>> \o (IF t.post THEN <<"lit">> ELSE <<>>)

ParTokens(t) ==
    AccTokens(t.pre) \o ParCtlTokens(t.ctl, t.par)
    \o (IF t.post THEN AccTokens(<<"lit">>) ELSE <<>>)

par_program(t) == xfmt(<<>>, ParTokens(t))

InitPar ==
    /\ wrap = "none"
    /\ calls = <<>>
    /\ sink = NewSink(FALSE, 0)
    /\ res = "none"
    /\ tmpl \in ParTemplates
    /\ \E val \in {<<"a">>, <<"<", APOS>>}, c \in BOOLEAN, xs \in {<<>>, <<<<"1">>, <<"2">>>>} :
          env = [x \in Vars \cup {<<"c", "1">>} \cup IterVars |->
                   IF x \in Vars THEN val ELSE IF x \in IterVars THEN xs ELSE c]

RenderPar ==
    /\ res = "none"
    /\ Compiles(par_program(tmpl))
    /\ LET r == exec(par_program(tmpl), Started(sink), env)
       IN  /\ sink' = r.k
           /\ calls' = r.h
           /\ res' = IF r.ok THEN "Ok" ELSE "Err"
    /\ UNCHANGED <<wrap, tmpl, env>>

RejectPar ==
    /\ res = "none"
    /\ ~Compiles(par_program(tmpl))
    /\ res' = "CompileError"
    /\ UNCHANGED <<wrap, calls, sink, tmpl, env>>

NextPar == RenderPar \/ RejectPar

SpecPar == InitPar /\ [][NextPar]_vars

(* the rendering of the template with the expression in parentheses *)
Parenthesized(t, en) == exec(par_program([t EXCEPT !.par = TRUE]), Started(NewSink(FALSE, 0)), en)

(* text is pending in the accumulator after these nodes *)
PendingAfter(pre) ==
    pre # <<>> /\ pre[Len(pre)] \in {"lit", "tag", "comment"}

(* C30: a match, if or for whose expression is written without             *)
(* parentheses renders what the form with parentheses renders, wherever    *)
(* it stands in the template, also directly after pending text or tags.    *)
C30_UnparenthesizedSame ==
    res # "none" =>
        /\ res = "Ok"
        /\ sink.buf = Parenthesized(tmpl, env).k.buf
        /\ calls = Parenthesized(tmpl, env).h
        /\ sink.buf = Output(RefCalls(ParNodes(tmpl), env, "group"))

(* What the rules do: `match` without parentheses is rejected when text    *)
(* is pending before it; every other template renders what the form with  *)
(* parentheses renders.                                                    *)
C30_MatchAfterPendingText ==
    res # "none" =>
        /\ (res = "CompileError") = (tmpl.ctl = "match" /\ ~tmpl.par /\ PendingAfter(tmpl.pre))
        /\ res # "CompileError" =>
              /\ res = "Ok"
              /\ calls = Parenthesized(tmpl, env).h
              /\ sink.buf = Output(RefCalls(ParNodes(tmpl), env, "group"))

(* `"a" match c1 { true => { "m" }, _ => "n" }` is rejected *)
C30_Witness ==
    /\ res = "CompileError"
    /\ tmpl.pre = <<"lit">> /\ tmpl.ctl = "match" /\ ~tmpl.par

(* `match c1 { .. } "a"` at the start of the template renders `m` or `n`   *)
(* and the text                                                            *)
C30_WitnessFirst ==
    /\ res = "Ok"
    /\ tmpl.pre = <<>> /\ tmpl.ctl = "match" /\ ~tmpl.par /\ tmpl.post
    /\ sink.buf = <<IF env[<<"c", "1">>] THEN "m" ELSE "n", "a">>

(* `<b> for i in xs { "l" }` renders the tag and the body per item *)
C30_WitnessFor ==
    /\ res = "Ok"
    /\ tmpl.pre = <<"tag">> /\ tmpl.ctl = "for" /\ ~tmpl.par /\ ~tmpl.post
    /\ sink.buf = <<"<", "b", ">", "l", "l">>
-----------------------------------------------------------------------------
(* The escapers on UTF-8 input.  A &str is a sequence of characters, each  *)
(* the bytes of its encoding; the bytes of a character outside ASCII are   *)
(* written by their hex value: U+00E9 is C3 A9, U+20AC is E2 82 AC.        *)

MaxChars == 3

LeadBytes == {"C3", "E2"}
ContBytes == {"A9", "82", "AC"}
Utf8Chars == {<<"<">>, <<"&">>, <<">">>, <<APOS>>, <<QUOT>>, <<"a">>,
              <<"C3", "A9">>, <<"E2", "82", "AC">>}

(* the length of the character a byte starts *)
CharLen(b) == CASE b = "C3" -> 2 [] b = "E2" -> 3 [] OTHER -> 1

(* str::from_utf8(v) is Ok: v is a sequence of whole characters *)
RECURSIVE ValidUtf8(_)
ValidUtf8(v) ==
    IF v = <<>> THEN TRUE
    ELSE /\ Head(v) \notin ContBytes
         /\ Len(v) >= CharLen(Head(v))
         /\ \A j \in 2..CharLen(Head(v)) : v[j] \in ContBytes
         /\ ValidUtf8(Drop(v, CharLen(Head(v))))

(* from_utf8(v).unwrap() of the debug build returns; the release build's   *)
(* from_utf8_unchecked(v) is defined                                       *)
from_utf8_ok(v) == ValidUtf8(v)

(* str::is_char_boundary *)
is_char_boundary(s, i) == i = 0 \/ i = Len(s) \/ (i < Len(s) /\ s[i + 1] \notin ContBytes)

(* str::chars *)
RECURSIVE chars(_)
chars(s) ==
    IF s = <<>> THEN <<>>
    ELSE <<Take(s, CharLen(Head(s)))>> \o chars(Drop(s, CharLen(Head(s))))

(* html.rs escape: inner(&value.to_string(), f), i the loop variable *)
RECURSIVE escape_inner(_, _, _, _)
escape_inner(k, s, start, i) ==
    IF i < Len(s)
    THEN IF s[i + 1] \in {"&", "<", ">", APOS, QUOT}
         THEN LET pre == SubSeq(s, start + 1, i)
                  r1  == IF Len(pre) > 0 THEN SinkWrite(k, pre) ELSE Ok(k)
              IN  IF ~r1.ok THEN r1
                  ELSE LET r2 == escape_chr(r1.k, s[i + 1])
                       IN  IF ~r2.ok THEN r2 ELSE escape_inner(r2.k, s, i + 1, i + 1)
         ELSE escape_inner(k, s, start, i + 1)
    ELSE LET post == Drop(s, start)
         IN  IF Len(post) > 0 THEN SinkWrite(k, post) ELSE Ok(k)

escape(k, value) == escape_inner(k, value, 0, 0)

(* util.rs escape_w: one write per character *)
RECURSIVE escape_w_chars(_, _)
escape_w_noQuot(k, cs) ==
    IF cs = <<>> THEN Ok(k)
    ELSE LET r == IF Head(cs) \in {<<"&">>, <<"<">>, <<">">>, <<APOS>>}
                  THEN escape_chr(k, Head(cs)[1])
                  ELSE SinkWrite(k, Head(cs))
         IN  IF ~r.ok THEN r ELSE escape_w_chars(r.k, Tail(cs))

escape_w_chars(k, cs) ==
    IF cs = <<>> THEN Ok(k)
    ELSE LET r == IF Head(cs) \in {<<"&">>, <<"<">>, <<">">>, <<APOS>>, <<QUOT>>}
                  THEN escape_chr(k, Head(cs)[1])
                  ELSE SinkWrite(k, Head(cs))
         IN  IF ~r.ok THEN r ELSE escape_w_chars(r.k, Tail(cs))

escape_w(k, s) == escape_w_chars(k, chars(s))

(* the input strings: up to n characters *)
Utf8Str(n) == {Flatten(cs) : cs \in StrUpTo(Utf8Chars, n)}

RECURSIVE CharCount(_)
CharCount(ss) == IF ss = <<>> THEN 0 ELSE Len(chars(Head(ss))) + CharCount(Tail(ss))

InitUtf8 ==
    /\ wrap \in {"Text", "AttributeValue", "escape", "Escape"}
    /\ calls = <<>>
    /\ sink = NewSink(FALSE, 0)
    /\ res = "none"
    /\ tmpl = <<>>
    /\ env = <<>>

Utf8Text ==
    /\ wrap = "Text"
    /\ Len(calls) < MaxCalls
    /\ \E s \in Utf8Str(MaxChars - CharCount(calls)) :
         Call(EscapeText_write_str(sink, s), s)

Utf8AttrValue ==
    /\ wrap = "AttributeValue"
    /\ Len(calls) < MaxCalls
    /\ \E s \in Utf8Str(MaxChars - CharCount(calls)) :
         Call(EscapeAttrValue_write_str(sink, s), s)

(* escape(value) and Escape(value) are formatted once *)
Utf8Escape ==
    /\ wrap = "escape"
    /\ calls = <<>>
    /\ \E s \in Utf8Str(MaxChars) : Call(escape(sink, s), s)

Utf8EscapeW ==
    /\ wrap = "Escape"
    /\ calls = <<>>
    /\ \E s \in Utf8Str(MaxChars) : Call(escape_w(sink, s), s)

NextUtf8 == Utf8Text \/ Utf8AttrValue \/ Utf8Escape \/ Utf8EscapeW

SpecUtf8 == InitUtf8 /\ [][NextUtf8]_vars

Entities ==
    {<<"&", "l", "t", ";">>, <<"&", "a", "m", "p", ";">>, <<"&", "g", "t", ";">>,
     <<"&", "a", "p", "o", "s", ";">>, <<"&", "q", "u", "o", "t", ";">>}

StopBytes(w) == IF w = "Text" THEN {"<", "&", ">"} ELSE {"<", "&", ">", APOS, QUOT}

(* the slices of the input among the writes: every write but the entities *)
IsSlice(w) == w \notin Entities

(* C24: for valid UTF-8 input every slice the Text and AttributeValue      *)
(* escapers (and html.rs escape) pass to the sink is a sequence of whole   *)
(* characters, so from_utf8(..).unwrap() never fails; the scan stops only  *)
(* at the ASCII bytes `<`, `&`, `>`, `'`, `"`: a slice holds none of the   *)
(* wrapper's stop bytes and every byte outside a slice is one of them.     *)
C24_SlicesOnCharBoundaries ==
    wrap \in {"Text", "AttributeValue", "escape"} =>
        /\ \A j \in 1..Len(sink.writes) :
              /\ from_utf8_ok(sink.writes[j])
              /\ IsSlice(sink.writes[j]) =>
                    \A i \in 1..Len(sink.writes[j]) : sink.writes[j][i] \notin StopBytes(wrap)
        /\ \A c \in 1..Len(calls) :
              /\ is_char_boundary(calls[c], split_text(calls[c]))
              /\ is_char_boundary(calls[c], split_attr(calls[c]))
        /\ sink.buf = ReplaceEach(Flatten(calls), IF wrap = "Text" THEN TextRule ELSE AttrRule)

(* `é<€` through the Text escaper: the slices are `é` and `€` *)
C24_Witness ==
    /\ wrap = "Text"
    /\ calls = << <<"C3", "A9", "<", "E2", "82", "AC">> >>
    /\ sink.writes = << <<"C3", "A9">>, <<"&", "l", "t", ";">>, <<"E2", "82", "AC">> >>

(* `€'` through html.rs escape *)
C24_WitnessEscape ==
    /\ wrap = "escape"
    /\ calls = << <<"E2", "82", "AC", APOS>> >>
    /\ sink.writes = << <<"E2", "82", "AC">>, <<"&", "a", "p", "o", "s", ";">> >>
-----------------------------------------------------------------------------
(* What is in the sink after writes through the escapers *)

(* every `&` of s starts one of the entities *)
AmpStartsEntity(s, ents) ==
    \A i \in 1..Len(s) :
        s[i] = "&" => \E e \in ents : SubSeq(s, i, i + Len(e) - 1) = e

TextEntities == {<<"&", "l", "t", ";">>, <<"&", "a", "m", "p", ";">>, <<"&", "g", "t", ";">>}

(* C25: after any sequence of writes through the Text escaper the sink     *)
(* holds no `<` and no `>` and every `&` in it starts `&lt;`, `&amp;` or   *)
(* `&gt;`; through the AttributeValue escaper it holds no `'` and no `"`   *)
(* either, and an `&` may also start `&apos;` or `&quot;`.                 *)
C25_NoRawSpecials ==
    /\ wrap = "Text" =>
          /\ \A i \in 1..Len(sink.buf) : sink.buf[i] \notin {"<", ">"}
          /\ AmpStartsEntity(sink.buf, TextEntities)
    /\ wrap = "AttributeValue" =>
          /\ \A i \in 1..Len(sink.buf) : sink.buf[i] \notin {"<", ">", APOS, QUOT}
          /\ AmpStartsEntity(sink.buf, Entities)

(* `<&` then `>` through the Text escaper *)
C25_Witness ==
    /\ wrap = "Text"
    /\ calls = << <<"<", "&">>, <<">">> >>
    /\ sink.buf = <<"&", "l", "t", ";", "&", "a", "m", "p", ";", "&", "g", "t", ";">>

(* `'"` through the AttributeValue escaper *)
C25_WitnessAttr ==
    /\ wrap = "AttributeValue"
    /\ calls = << <<APOS, QUOT>> >>
    /\ sink.buf = <<"&", "a", "p", "o", "s", ";", "&", "q", "u", "o", "t", ";">>

(* C26: the output of a single write through the Comment escaper never     *)
(* contains `--`, also when the input holds runs of three or more `-`.     *)
C26_NoDoubleDash ==
    (wrap = "Comment" /\ Len(calls) = 1) => ~Contains(sink.buf, <<"-", "-">>)

(* `---a-` leaves `-a-` *)
C26_Witness ==
    /\ OneWrite("Comment")
    /\ calls[1] = <<"-", "-", "-", "a", "-">>
    /\ sink.buf = <<"-", "a", "-">>

(* `-----` leaves `-` *)
C26_WitnessRun ==
    /\ OneWrite("Comment")
    /\ calls[1] = <<"-", "-", "-", "-", "-">>
    /\ sink.buf = <<"-">>

(* C28: the Text and AttributeValue escapers do not depend on how the      *)
(* input is cut into writes: writing a and then b leaves in the sink what  *)
(* writing a ++ b in one call leaves.                                      *)
C28_ChunkingIndependent ==
    /\ wrap = "Text" =>
          sink.buf = EscapeText_write_str(NewSink(FALSE, 0), Flatten(calls)).k.buf
    /\ wrap = "AttributeValue" =>
          sink.buf = EscapeAttrValue_write_str(NewSink(FALSE, 0), Flatten(calls)).k.buf

(* `<` then `é&` *)
C28_Witness ==
    /\ wrap = "Text"
    /\ calls = << <<"<">>, <<"C3", "A9", "&">> >>
    /\ sink.buf = <<"&", "l", "t", ";", "C3", "A9", "&", "a", "m", "p", ";">>

(* `'` then `"€` through the AttributeValue escaper *)
C28_WitnessAttr ==
    /\ wrap = "AttributeValue"
    /\ calls = << <<APOS>>, <<QUOT, "E2", "82", "AC">> >>
    /\ sink.buf = <<"&", "a", "p", "o", "s", ";", "&", "q", "u", "o", "t", ";",
                    "E2", "82", "AC">>

(* C29: html.rs escape, util.rs Escape (escape_w) and EscapeAttrValue give *)
(* the same output for every input.                                        *)
C29_SameEscaping ==
    (wrap \in {"AttributeValue", "escape", "Escape"} /\ Len(calls) = 1) =>
        /\ sink.buf = escape(NewSink(FALSE, 0), calls[1]).k.buf
        /\ sink.buf = escape_w(NewSink(FALSE, 0), calls[1]).k.buf
        /\ sink.buf = EscapeAttrValue_write_str(NewSink(FALSE, 0), calls[1]).k.buf

(* `&a'b<c>` of test_escape, cut to the bound: `&'é` through escape_w *)
C29_Witness ==
    /\ wrap = "Escape"
    /\ calls = << <<"&", APOS, "C3", "A9">> >>
    /\ sink.buf = <<"&", "a", "m", "p", ";", "&", "a", "p", "o", "s", ";", "C3", "A9">>

(* `"<€` through html.rs escape *)
C29_WitnessEscape ==
    /\ wrap = "escape"
    /\ calls = << <<QUOT, "<", "E2", "82", "AC">> >>
    /\ sink.buf = <<"&", "q", "u", "o", "t", ";", "&", "l", "t", ";", "E2", "82", "AC">>
-----------------------------------------------------------------------------
(* CDATA sections of xfmt!: `<![CDATA[ {v} ]]>` with any value of v *)

MaxCDataLen == 6

(* t = [pre: text stands before the section, gt: the section is closed by  *)
(* `]]>` (without the `>` no rule accepts the tokens)]                     *)
CDataTemplates == [pre : BOOLEAN, gt : BOOLEAN]

CDataTokens(t) ==
    (IF t.pre THEN <<Lit(<<"a">>)>> ELSE <<>>)
    \o <<P("<"), P("!"),
         Grp("[", <<Id(<<"C", "D", "A", "T", "A">>),
                    Grp("[", <<Grp("{", <<Id(<<"v">>)>>)>>)>>)>>
    \o (IF t.gt THEN <<P(">")>> ELSE <<>>)

cdata_program(t) == xfmt(<<>>, CDataTokens(t))

InitCData ==
    /\ wrap = "none"
    /\ calls = <<>>
    /\ sink = NewSink(FALSE, 0)
    /\ res = "none"
    /\ tmpl \in CDataTemplates
    /\ env \in [Vars -> StrUpTo(CDataBytes, MaxCDataLen)]

RenderCData ==
    /\ res = "none"
    /\ Compiles(cdata_program(tmpl))
    /\ LET r == exec(cdata_program(tmpl), Started(sink), env)
       IN  /\ sink' = r.k
           /\ calls' = r.h
           /\ res' = IF r.ok THEN "Ok" ELSE "Err"
    /\ UNCHANGED <<wrap, tmpl, env>>

RejectCData ==
    /\ res = "none"
    /\ ~Compiles(cdata_program(tmpl))
    /\ res' = "CompileError"
    /\ UNCHANGED <<wrap, calls, sink, tmpl, env>>

NextCData == RenderCData \/ RejectCData

SpecCData == InitCData /\ [][NextCData]_vars

(* What an XML parser reads from consecutive CDATA sections: each starts   *)
(* with `<![CDATA[` and ends at the first `]]>`; the contents are joined.  *)
(* <<"?">> stands for text that is not a sequence of CDATA sections.       *)
CDataOpen == <<"<", "!", "[", "C", "D", "A", "T", "A", "[">>

RECURSIVE CDataDecode(_)
CDataDecode(t) ==
    IF t = <<>> THEN <<>>
    ELSE IF ~StartsWith(t, CDataOpen) THEN <<"?">>
    ELSE LET body == Drop(t, Len(CDataOpen))
             i    == find_from(body, CDataNeedle, 0)
         IN  IF i < 0 THEN <<"?">>
             ELSE Take(body, i) \o CDataDecode(Drop(body, i + Len(CDataNeedle)))

(* the sink after the text before the section *)
CDataSection(t, buf) == IF t.pre THEN Tail(buf) ELSE buf

(* C27: CData escaping round-trips: the escaped value between `<![CDATA[`  *)
(* and `]]>`, read as consecutive CDATA sections, is the value again, also *)
(* for `]]]>` and for several `]]>` in a row.                              *)
C27_CDataRoundTrip ==
    res # "none" =>
        /\ (res = "Ok") = tmpl.gt
        /\ res = "Ok" =>
              /\ Cardinality({i \in 1..Len(calls) : calls[i].esc = "CData"}) = 1
              /\ CDataDecode(CDataSection(tmpl, sink.buf)) = env[<<"v">>]

(* `]]>]]>`: three sections *)
C27_Witness ==
    /\ res = "Ok"
    /\ ~tmpl.pre
    /\ env[<<"v">>] = <<"]", "]", ">", "]", "]", ">">>
    /\ sink.buf = CDataOpen \o <<"]", "]">> \o <<"]", "]", ">">>
                  \o CDataOpen \o <<">", "]", "]">> \o <<"]", "]", ">">>
                  \o CDataOpen \o <<">">> \o <<"]", "]", ">">>

(* `]]]>` *)
C27_WitnessBracket ==
    /\ res = "Ok"
    /\ ~tmpl.pre
    /\ env[<<"v">>] = <<"]", "]", "]", ">">>
    /\ sink.buf = CDataOpen \o <<"]", "]", "]">> \o <<"]", "]", ">">>
                  \o CDataOpen \o <<">">> \o <<"]", "]", ">">>

====
